---- MODULE Spec2Model ----
(***************************************************************************)
(* A model of the ABC score-header compaction codec:                       *)
(*   - the encode side, ABCCleaner.encode of cleaner.py, and               *)
(*   - the restore side, restore_text_simple of mess.py.                   *)
(* Texts are TLA+ strings handled character by character (Len, SubSeq and  *)
(* \o on strings), so that every regular expression and every string       *)
(* method of the Python source is modelled by what it does to the text.    *)
(***************************************************************************)
EXTENDS Integers, Sequences, FiniteSets, TLC

VARIABLES
    pc,         \* position of the run: which operation has been applied
    input,      \* the input handed to the operation under study
    enc,        \* the locals of ABCCleaner.encode, once it has run
    dec,        \* the locals of restore_text_simple, once it has run
    walk,       \* the locals of the bracket-stack walk of _build_group_map
    bc,         \* the arguments of _broadcast_snm and the voice metadata it leaves
    hsplit,     \* the result of _split_header_bars
    batch       \* the position and the record of the main loop of the batch drivers

vars == <<pc, input, enc, dec, walk, bc, hsplit, batch>>

(***************************************************************************)
(* Python's str and re primitives                                          *)
(***************************************************************************)

\* Optional[str]: None, or a value
None == [some |-> FALSE, v |-> ""]

Some(x) == [some |-> TRUE, v |-> x]

\* s[i-1:i] in Python terms: one character, or "" outside the text
Ch(s, i) == IF 1 <= i /\ i <= Len(s) THEN SubSeq(s, i, i) ELSE ""

Space == {" ", "\t", "\n", "\r"}

DigitStr == "0123456789"

LowerStr == "abcdefghijklmnopqrstuvwxyz"

UpperStr == "ABCDEFGHIJKLMNOPQRSTUVWXYZ"

CharsOf(s) == {Ch(s, i) : i \in 1..Len(s)}

Digits == CharsOf(DigitStr)

Alpha == CharsOf(LowerStr) \cup CharsOf(UpperStr)

Word == Alpha \cup Digits \cup {"_"}

Min(S) == CHOOSE x \in S : \A y \in S : x <= y

Max(S) == CHOOSE x \in S : \A y \in S : x >= y

\* s[i-1:] in Python terms, for a 1-based i
From(s, i) == SubSeq(s, i, Len(s))

StartsWithAt(s, p, i) == i >= 1 /\ i + Len(p) - 1 <= Len(s) /\ SubSeq(s, i, i + Len(p) - 1) = p

StartsWith(s, p) == StartsWithAt(s, p, 1)

EndsWith(s, p) == Len(p) <= Len(s) /\ StartsWithAt(s, p, Len(s) - Len(p) + 1)

\* str.find, 1-based, 0 when absent
Find(s, p, from) ==
    LET c == {i \in from..(Len(s) - Len(p) + 1) : StartsWithAt(s, p, i)}
    IN IF c = {} THEN 0 ELSE Min(c)

Contains(s, p) == Find(s, p, 1) > 0

\* the end (exclusive, 1-based) of the longest run of characters of set C starting at i
RunEnd(s, i, C) == Min({j \in i..(Len(s) + 1) : Ch(s, j) \notin C} \cup {Max({i, Len(s) + 1})})

LStrip(s) == From(s, RunEnd(s, 1, Space))

RStrip(s) == SubSeq(s, 1, Max({i \in 1..Len(s) : Ch(s, i) \notin Space} \cup {0}))

Strip(s) == RStrip(LStrip(s))

\* str.replace(old, new): leftmost non-overlapping occurrences, no rescan
RECURSIVE Replace(_, _, _)
Replace(s, old, new) ==
    LET i == Find(s, old, 1)
    IN IF i = 0 THEN s
       ELSE SubSeq(s, 1, i - 1) \o new \o Replace(From(s, i + Len(old)), old, new)

\* re.sub(r'\s+', '', s)
RECURSIVE RemoveSpace(_)
RemoveSpace(s) ==
    IF Len(s) = 0 THEN ""
    ELSE IF Len(s) = 1 THEN (IF s \in Space THEN "" ELSE s)
    ELSE RemoveSpace(SubSeq(s, 1, Len(s) \div 2)) \o RemoveSpace(From(s, Len(s) \div 2 + 1))

LowerCh(c) ==
    LET i == Find(UpperStr, c, 1) IN IF i = 0 THEN c ELSE Ch(LowerStr, i)

\* str.lower()
RECURSIVE Lower(_)
Lower(s) ==
    IF Len(s) = 0 THEN ""
    ELSE IF Len(s) = 1 THEN LowerCh(s)
    ELSE Lower(SubSeq(s, 1, Len(s) \div 2)) \o Lower(From(s, Len(s) \div 2 + 1))

IsDigits(s) == Len(s) > 0 /\ \A i \in 1..Len(s) : Ch(s, i) \in Digits

RECURSIVE DigitsToNat(_)
DigitsToNat(s) ==
    IF Len(s) = 0 THEN 0
    ELSE 10 * DigitsToNat(SubSeq(s, 1, Len(s) - 1)) + (Find(DigitStr, Ch(s, Len(s)), 1) - 1)

RECURSIVE NatToStr(_)
NatToStr(n) == IF n < 10 THEN Ch(DigitStr, n + 1) ELSE NatToStr(n \div 10) \o Ch(DigitStr, (n % 10) + 1)

\* str(n) for an int
IntToStr(n) == IF n < 0 THEN "-" \o NatToStr(0 - n) ELSE NatToStr(n)

\* s * n
RECURSIVE Repeat(_, _)
Repeat(s, n) ==
    IF n = 0 THEN ""
    ELSE IF n % 2 = 0 THEN Repeat(s \o s, n \div 2)
    ELSE s \o Repeat(s, n - 1)

\* int(s) succeeds: optional surrounding whitespace, optional sign, digits
IsIntText(s) ==
    LET t == Strip(s)
        u == IF Len(t) > 0 /\ Head(t) \in {"+", "-"} THEN Tail(t) ELSE t
    IN IsDigits(u)

IntOfText(s) ==
    LET t == Strip(s)
    IN IF Len(t) > 0 /\ Head(t) = "-" THEN 0 - DigitsToNat(Tail(t))
       ELSE IF Len(t) > 0 /\ Head(t) = "+" THEN DigitsToNat(Tail(t))
       ELSE DigitsToNat(t)

\* str.split(sep) for a one-character separator
RECURSIVE SplitOn(_, _)
SplitOn(s, sep) ==
    LET i == Find(s, sep, 1)
    IN IF i = 0 THEN <<s>> ELSE <<SubSeq(s, 1, i - 1)>> \o SplitOn(From(s, i + 1), sep)

\* sep.join(parts)
RECURSIVE Join(_, _)
Join(parts, sep) ==
    IF Len(parts) = 0 THEN ""
    ELSE IF Len(parts) = 1 THEN parts[1]
    ELSE parts[1] \o sep \o Join(Tail(parts), sep)

\* str.split(maxsplit=n) with no separator: runs of whitespace separate, at most
\* n splits, the last part keeps its inner and trailing whitespace
RECURSIVE SplitWs(_, _)
SplitWs(s, n) ==
    LET t == LStrip(s)
    IN IF Len(t) = 0 THEN <<>>
       ELSE IF n = 0 THEN <<t>>
       ELSE LET e == RunEnd(t, 1, CharsOf(t) \ Space)
            IN <<SubSeq(t, 1, e - 1)>> \o SplitWs(From(t, e), n - 1)

(***************************************************************************)
(* cleaner.py: the regular expressions of the module head                  *)
(***************************************************************************)

\* ^X:\s*(.+)$ for a one-letter field X: group 1 of the match, or None
FieldRe(s, letter) ==
    IF ~StartsWith(s, letter \o ":") THEN None
    ELSE LET rest == From(s, 3)
             body == LStrip(rest)
         IN IF Len(rest) = 0 THEN None
            ELSE IF Len(body) = 0 THEN Some(Ch(rest, Len(rest)))
            ELSE Some(body)

Q_RE(s) == FieldRe(s, "Q")

M_RE(s) == FieldRe(s, "M")

K_RE(s) == FieldRe(s, "K")

\* ^%%score\s+(.*)$: group 1 of the match, or None
SCORE_RE(s) ==
    IF StartsWith(s, "%%score") /\ Len(s) > 7 /\ Ch(s, 8) \in Space
    THEN Some(LStrip(From(s, 8)))
    ELSE None

\* ^V:\s*(\d+)\b(.*)$
V_RE(s) ==
    LET j == RunEnd(s, 3, Space)
        e == RunEnd(s, j, Digits)
    IN IF StartsWith(s, "V:") /\ e > j /\ (e > Len(s) \/ Ch(s, e) \notin Word)
       THEN [ok |-> TRUE, g1 |-> SubSeq(s, j, e - 1), g2 |-> From(s, e)]
       ELSE [ok |-> FALSE, g1 |-> "", g2 |-> ""]

\* \[V:\s*(\d+)\] matched at position i: the voice id and the end of the match
V_TAGGED_SEG_RE(s, i) ==
    LET j == RunEnd(s, i + 3, Space)
        e == RunEnd(s, j, Digits)
    IN IF StartsWithAt(s, "[V:", i) /\ e > j /\ e <= Len(s) /\ Ch(s, e) = "]"
       THEN [ok |-> TRUE, vid |-> DigitsToNat(SubSeq(s, j, e - 1)), end |-> e + 1]
       ELSE [ok |-> FALSE, vid |-> 0, end |-> i]

\* \[Q:[^\]]+\] matched at position i: the end of the match
ANY_Q_INLINE_RE(s, i) ==
    LET e == Find(s, "]", i + 3)
    IN IF StartsWithAt(s, "[Q:", i) /\ e > i + 3
       THEN [ok |-> TRUE, end |-> e + 1]
       ELSE [ok |-> FALSE, end |-> i]

\* (\[V:\s*\d+\])\s*(\[Q:[^\]]+\]) matched at position i
V_INLINE_Q_RE(s, i) ==
    LET v == V_TAGGED_SEG_RE(s, i)
        k == RunEnd(s, v.end, Space)
        q == ANY_Q_INLINE_RE(s, k)
    IN IF v.ok /\ q.ok
       THEN [ok |-> TRUE, g1 |-> SubSeq(s, i, v.end - 1), g2 |-> SubSeq(s, k, q.end - 1), end |-> q.end]
       ELSE [ok |-> FALSE, g1 |-> "", g2 |-> "", end |-> i]

shorten_clef(text) == Replace(text, "treble", "treb")

(***************************************************************************)
(* cleaner.py: header/body split and the header scan                       *)
(***************************************************************************)

is_header(line) ==
    LET s == Strip(line)
    IN (Len(s) >= 2 /\ Ch(s, 1) \in Alpha /\ Ch(s, 2) = ":") \/ StartsWith(s, "%%")

\* variant of the loop that never latches in_body: header lines resume after body
RECURSIVE split_loop_resuming(_, _, _, _)
split_loop_resuming(lines, in_body, header, body) ==
    IF Len(lines) = 0 THEN [header |-> header, body |-> body]
    ELSE IF ~in_body /\ is_header(Head(lines))
         THEN split_loop_resuming(Tail(lines), in_body, Append(header, Head(lines)), body)
         ELSE split_loop_resuming(Tail(lines), in_body, header, Append(body, Head(lines)))

RECURSIVE split_loop(_, _, _, _)
split_loop(lines, in_body, header, body) ==
    IF Len(lines) = 0 THEN [header |-> header, body |-> body]
    ELSE IF ~in_body /\ is_header(Head(lines))
         THEN split_loop(Tail(lines), in_body, Append(header, Head(lines)), body)
         ELSE split_loop(Tail(lines), TRUE, header, Append(body, Head(lines)))

split_header_bars(lines) == split_loop(lines, FALSE, <<>>, <<>>)

pick_once(header, RX(_)) ==
    LET c == {i \in 1..Len(header) : RX(Strip(header[i])).some}
    IN IF c = {} THEN None ELSE Some(Strip(RX(Strip(header[Min(c)])).v))

\* re.search(r'clef\s*=\s*([A-Za-z]+)\s*([+-]\d+)?', payload): base and octave groups
ClefSearch(payload) ==
    LET eq(i) == RunEnd(payload, i + 4, Space)
        nameAt(i) == RunEnd(payload, eq(i) + 1, Space)
        nameEnd(i) == RunEnd(payload, nameAt(i), Alpha)
        c == {i \in 1..Len(payload) :
                 /\ StartsWithAt(payload, "clef", i)
                 /\ Ch(payload, eq(i)) = "="
                 /\ nameEnd(i) > nameAt(i)}
    IN IF c = {} THEN [ok |-> FALSE, g1 |-> "", g2 |-> ""]
       ELSE LET i == Min(c)
                w == RunEnd(payload, nameEnd(i), Space)
                d == RunEnd(payload, w + 1, Digits)
            IN [ok |-> TRUE,
                g1 |-> SubSeq(payload, nameAt(i), nameEnd(i) - 1),
                g2 |-> IF Ch(payload, w) \in {"+", "-"} /\ d > w + 1
                       THEN SubSeq(payload, w, d - 1) ELSE ""]

\* re.search(r'transpose\s*=\s*(-?\d+)', payload): group 1, or None
TransposeSearch(payload) ==
    LET eq(i) == RunEnd(payload, i + 9, Space)
        numAt(i) == RunEnd(payload, eq(i) + 1, Space)
        digAt(i) == IF Ch(payload, numAt(i)) = "-" THEN numAt(i) + 1 ELSE numAt(i)
        numEnd(i) == RunEnd(payload, digAt(i), Digits)
        c == {i \in 1..Len(payload) :
                 /\ StartsWithAt(payload, "transpose", i)
                 /\ Ch(payload, eq(i)) = "="
                 /\ numEnd(i) > digAt(i)}
    IN IF c = {} THEN None
       ELSE Some(SubSeq(payload, numAt(Min(c)), numEnd(Min(c)) - 1))

\* re.search(key + r'="([^"]*)"', payload) for key nm or snm: group 1, or None
QuotedSearch(payload, key) ==
    LET open == key \o "=\""
        c == {i \in 1..Len(payload) :
                 StartsWithAt(payload, open, i) /\ Find(payload, "\"", i + Len(open)) > 0}
    IN IF c = {} THEN None
       ELSE LET i == Min(c) + Len(open)
            IN Some(SubSeq(payload, i, Find(payload, "\"", i) - 1))

parse_v_payload(payload) ==
    LET toks == SplitWs(payload, -1)
        m == ClefSearch(payload)
        bare == {i \in 1..Len(toks) : ~Contains(toks[i], "=")}
        clef == IF m.ok THEN Lower(m.g1) \o m.g2
                ELSE IF bare = {} THEN "" ELSE Lower(toks[Min(bare)])
        t == TransposeSearch(payload)
        nm_m == QuotedSearch(payload, "nm")
        snm_m == QuotedSearch(payload, "snm")
    IN [clef |-> clef,
        transpose |-> IF t.some THEN IntOfText(t.v) ELSE 0,
        nm |-> IF nm_m.some THEN Strip(nm_m.v) ELSE "",
        snm |-> IF snm_m.some THEN Strip(snm_m.v) ELSE ""]

\* dict.get(key, default) and dict[key] = value for dicts modelled as functions
Get(d, key, default) == IF key \in DOMAIN d THEN d[key] ELSE default

Put(d, key, value) == [k \in DOMAIN d \cup {key} |-> IF k = key THEN value ELSE d[k]]

SetDefault(d, key, value) == IF key \in DOMAIN d THEN d ELSE Put(d, key, value)

EmptyDict == [k \in {} |-> 0]

\* percussive_inline.setdefault(vid, {}).setdefault(key, []).append(value); a key
\* of the inner dict is present exactly when its list is not empty
PercAppend(perc, vid, key, value) ==
    LET old == Get(perc, vid, [K |-> <<>>, I |-> <<>>])
    IN Put(perc, vid, [old EXCEPT ![key] = Append(@, value)])

\* variant in which a declaration with another clef does not end the tracking
\* of a percussion voice
collect_line_sticky_perc(st, ln) ==
    LET vm == V_RE(Strip(ln))
        km == K_RE(Strip(ln))
    IN IF vm.ok
       THEN LET vid == DigitsToNat(vm.g1)
                meta == parse_v_payload(Strip(vm.g2))
            IN [st EXCEPT !.vmeta = Put(@, vid, meta),
                          !.last_vid = IF meta.clef = "perc" \/ ~st.last_is_perc THEN vid ELSE @,
                          !.last_is_perc = @ \/ (meta.clef = "perc")]
       ELSE IF km.some /\ st.last_vid # -1 /\ st.last_is_perc
       THEN IF Lower(Strip(km.v)) = "none"
            THEN [st EXCEPT !.percussive_inline = PercAppend(@, st.last_vid, "K", "none")]
            ELSE st
       ELSE IF StartsWith(ln, "I:percmap") /\ st.last_vid # -1 /\ st.last_is_perc
       THEN [st EXCEPT !.percussive_inline = PercAppend(@, st.last_vid, "I", Strip(ln))]
       ELSE st

\* one iteration of the loop of _collect_v_and_percmap over header line ln
collect_line(st, ln) ==
    LET vm == V_RE(Strip(ln))
        km == K_RE(Strip(ln))
    IN IF vm.ok
       THEN LET vid == DigitsToNat(vm.g1)
                meta == parse_v_payload(Strip(vm.g2))
            IN [st EXCEPT !.vmeta = Put(@, vid, meta),
                          !.last_vid = vid,
                          !.last_is_perc = (meta.clef = "perc")]
       ELSE IF km.some /\ st.last_vid # -1 /\ st.last_is_perc
       THEN IF Lower(Strip(km.v)) = "none"
            THEN [st EXCEPT !.percussive_inline = PercAppend(@, st.last_vid, "K", "none")]
            ELSE st
       ELSE IF StartsWith(ln, "I:percmap") /\ st.last_vid # -1 /\ st.last_is_perc
       THEN [st EXCEPT !.percussive_inline = PercAppend(@, st.last_vid, "I", Strip(ln))]
       ELSE st

RECURSIVE collect_loop(_, _)
collect_loop(st, header) ==
    IF Len(header) = 0 THEN st ELSE collect_loop(collect_line(st, Head(header)), Tail(header))

\* last_vid = -1 stands for None: a voice id is a run of digits, never negative
collect_v_and_percmap(header) ==
    collect_loop([vmeta |-> EmptyDict, percussive_inline |-> EmptyDict,
                  last_vid |-> -1, last_is_perc |-> FALSE], header)

(***************************************************************************)
(* cleaner.py: the layout directive, tokenizer and bracket-stack walk      *)
(***************************************************************************)

\* the while loop of _score_tokenize from position i: whitespace and any other
\* character that is no bracket, bar or digit is skipped
RECURSIVE score_tokenize_from(_, _)
score_tokenize_from(body, i) ==
    LET k == RunEnd(body, i, CharsOf(body) \ ({"(", ")", "{", "}", "|"} \cup Digits))
        c == Ch(body, k)
    IN IF k > Len(body) THEN <<>>
       ELSE IF c \in Digits
            THEN LET j == RunEnd(body, k, Digits)
                 IN <<SubSeq(body, k, j - 1)>> \o score_tokenize_from(body, j)
       ELSE <<c>> \o score_tokenize_from(body, k + 1)

score_tokenize(body) == score_tokenize_from(body, 1)

\* for n in nums: m.setdefault(n, s)
SetDefaultAll(m, nums, s) == [k \in DOMAIN m \cup nums |-> IF k \in DOMAIN m THEN m[k] ELSE s]

\* the descriptor flush_group renders for a popped node
flush_render(node) ==
    IF node.type = "(" THEN "(" \o Join(node.elems, "|") \o ")"
    ELSE "{" \o Join(node.elems, "|") \o "}"

\* flush_group: the walk state after the two maps took the node's members
flush_group(w, node) ==
    IF node.type = "(" THEN [w EXCEPT !.paren_map = SetDefaultAll(@, node.nums, flush_render(node))]
    ELSE [w EXCEPT !.brace_map = SetDefaultAll(@, node.nums, flush_render(node))]

walk_start(score_body) ==
    [tokens |-> score_tokenize(score_body), i |-> 1, stack |-> <<>>,
     paren_map |-> EmptyDict, brace_map |-> EmptyDict]

walk_open(w) ==
    [w EXCEPT !.stack = Append(@, [type |-> w.tokens[w.i], elems |-> <<>>, nums |-> {}]),
              !.i = @ + 1]

\* variant that leaves the stack alone when the closer does not match the
\* opener of the innermost accumulator
walk_close_skipping_mismatch(w) ==
    IF Len(w.stack) = 0 THEN [w EXCEPT !.i = @ + 1]
    ELSE LET node == w.stack[Len(w.stack)]
             rest == SubSeq(w.stack, 1, Len(w.stack) - 1)
             f == flush_group(w, node)
             s == flush_render(node)
         IN IF (node.type = "(") # (w.tokens[w.i] = ")") THEN [w EXCEPT !.i = @ + 1]
            ELSE IF Len(rest) = 0 THEN [f EXCEPT !.stack = rest, !.i = @ + 1]
            ELSE [f EXCEPT !.stack = [rest EXCEPT ![Len(rest)] =
                                         [@ EXCEPT !.elems = Append(@, s),
                                                   !.nums = @ \cup node.nums]],
                           !.i = @ + 1]

\* variant in which only a group that closes at top level is recorded
walk_close_top_level_only(w) ==
    IF Len(w.stack) = 0 THEN [w EXCEPT !.i = @ + 1]
    ELSE LET node == w.stack[Len(w.stack)]
             rest == SubSeq(w.stack, 1, Len(w.stack) - 1)
             s == flush_render(node)
         IN IF Len(rest) = 0 THEN [flush_group(w, node) EXCEPT !.stack = rest, !.i = @ + 1]
            ELSE [w EXCEPT !.stack = [rest EXCEPT ![Len(rest)] =
                                         [@ EXCEPT !.elems = Append(@, s),
                                                   !.nums = @ \cup node.nums]],
                           !.i = @ + 1]

walk_close(w) ==
    IF Len(w.stack) = 0 THEN [w EXCEPT !.i = @ + 1]
    ELSE LET node == w.stack[Len(w.stack)]
             rest == SubSeq(w.stack, 1, Len(w.stack) - 1)
             f == flush_group(w, node)
             s == flush_render(node)
         IN IF Len(rest) = 0 THEN [f EXCEPT !.stack = rest, !.i = @ + 1]
            ELSE [f EXCEPT !.stack = [rest EXCEPT ![Len(rest)] =
                                         [@ EXCEPT !.elems = Append(@, s),
                                                   !.nums = @ \cup node.nums]],
                           !.i = @ + 1]

walk_separator(w) == [w EXCEPT !.i = @ + 1]

walk_number(w) ==
    LET n == DigitsToNat(w.tokens[w.i])
        top == Len(w.stack)
    IN IF top > 0
       THEN [w EXCEPT !.stack[top].elems = Append(@, IntToStr(n)),
                      !.stack[top].nums = @ \cup {n},
                      !.i = @ + 1]
       ELSE [w EXCEPT !.paren_map = SetDefault(@, n, "(" \o IntToStr(n) \o ")"),
                      !.i = @ + 1]

\* one iteration of the while loop of _build_group_map
walk_step(w) ==
    LET tk == w.tokens[w.i]
    IN IF tk \in {"(", "{"} THEN walk_open(w)
       ELSE IF tk \in {")", "}"} THEN walk_close(w)
       ELSE IF tk = "|" THEN walk_separator(w)
       ELSE walk_number(w)

RECURSIVE walk_loop(_)
walk_loop(w) == IF w.i > Len(w.tokens) THEN w ELSE walk_loop(walk_step(w))

\* variant of the merge in which parenthesis entries override brace entries
merge_group_map_paren_first(paren_map, brace_map) ==
    [n \in DOMAIN paren_map \cup DOMAIN brace_map |->
        IF n \in DOMAIN paren_map THEN paren_map[n] ELSE brace_map[n]]

\* the final merge: brace entries override parenthesis entries
merge_group_map(paren_map, brace_map) ==
    [n \in DOMAIN paren_map \cup DOMAIN brace_map |->
        IF n \in DOMAIN brace_map THEN brace_map[n] ELSE paren_map[n]]

build_group_map(score_body) ==
    LET w == walk_loop(walk_start(score_body))
    IN merge_group_map(w.paren_map, w.brace_map)

(***************************************************************************)
(* cleaner.py: short-name broadcast and the compact header                 *)
(***************************************************************************)

singleton(vid) == "(" \o IntToStr(vid) \o ")"

\* variant that fills an empty short name from the previous member of the group
\* instead of the group's leader
broadcast_snm_from_previous(vmeta, group_map) ==
    LET gkey(v) == Get(group_map, v, singleton(v))
        before(v) == {u \in DOMAIN vmeta : gkey(u) = gkey(v) /\ u < v}
        previous(v) == IF before(v) = {} THEN "" ELSE Strip(vmeta[Max(before(v))].snm)
    IN [v \in DOMAIN vmeta |->
          IF previous(v) # "" /\ Strip(vmeta[v].snm) = ""
          THEN [vmeta[v] EXCEPT !.snm = previous(v)]
          ELSE vmeta[v]]

\* variant that gives the leader's short name to every member of the group,
\* named or not
broadcast_snm_overwriting(vmeta, group_map) ==
    LET gkey(v) == Get(group_map, v, singleton(v))
        vids(v) == {u \in DOMAIN vmeta : gkey(u) = gkey(v)}
        named(v) == {u \in vids(v) : Strip(vmeta[u].snm) # ""}
        leader(v) == IF named(v) = {} THEN "" ELSE Strip(vmeta[Min(named(v))].snm)
    IN [v \in DOMAIN vmeta |->
          IF leader(v) # "" THEN [vmeta[v] EXCEPT !.snm = leader(v)] ELSE vmeta[v]]

broadcast_snm(vmeta, group_map) ==
    LET gkey(v) == Get(group_map, v, singleton(v))
        vids(v) == {u \in DOMAIN vmeta : gkey(u) = gkey(v)}
        named(v) == {u \in vids(v) : Strip(vmeta[u].snm) # ""}
        leader(v) == IF named(v) = {} THEN "" ELSE Strip(vmeta[Min(named(v))].snm)
    IN [v \in DOMAIN vmeta |->
          IF leader(v) # "" /\ Strip(vmeta[v].snm) = ""
          THEN [vmeta[v] EXCEPT !.snm = leader(v)]
          ELSE vmeta[v]]

\* re.match(r'([a-z]+)([+-]\d+)?$', raw_clef) and the 4-character cut
render_clef(raw_clef) ==
    LET e == RunEnd(raw_clef, 1, CharsOf(LowerStr))
        d == RunEnd(raw_clef, e + 1, Digits)
        plain == e > 1 /\ e = Len(raw_clef) + 1
        shifted == e > 1 /\ Ch(raw_clef, e) \in {"+", "-"} /\ d > e + 1 /\ d = Len(raw_clef) + 1
    IN IF raw_clef = "" THEN ""
       ELSE IF plain THEN SubSeq(raw_clef, 1, Min({4, e - 1}))
       ELSE IF shifted THEN SubSeq(raw_clef, 1, Min({4, e - 1})) \o From(raw_clef, e)
       ELSE SubSeq(raw_clef, 1, Min({4, Len(raw_clef)}))

\* variant of the field list that writes a group field for grouped voices only
render_parts_grouped_only(vid, meta, group_map) ==
    LET clef == render_clef(Lower(Strip(meta.clef)))
        snm == Replace(meta.snm, " ", "")
    IN <<"V:" \o IntToStr(vid)>>
       \o (IF clef # "" THEN <<clef>> ELSE <<>>)
       \o <<IntToStr(meta.transpose)>>
       \o (IF snm # "" THEN <<snm>> ELSE <<>>)
       \o (IF vid \in DOMAIN group_map THEN <<group_map[vid]>> ELSE <<>>)

\* the fields of one compact voice line, before ' '.join
render_parts(vid, meta, group_map) ==
    LET clef == render_clef(Lower(Strip(meta.clef)))
        snm == Replace(meta.snm, " ", "")
    IN <<"V:" \o IntToStr(vid)>>
       \o (IF clef # "" THEN <<clef>> ELSE <<>>)
       \o <<IntToStr(meta.transpose)>>
       \o (IF snm # "" THEN <<snm>> ELSE <<>>)
       \o <<Get(group_map, vid, singleton(vid))>>

\* sorted(S) for a finite set of integers
RECURSIVE Sorted(_)
Sorted(S) == IF S = {} THEN <<>> ELSE <<Min(S)>> \o Sorted(S \ {Min(S)})

render_tagged_v_header(vmeta, group_map) ==
    LET ids == Sorted(DOMAIN vmeta)
    IN [k \in 1..Len(ids) |-> Join(render_parts(ids[k], vmeta[ids[k]], group_map), " ")]

(***************************************************************************)
(* cleaner.py: first-line tag injection and the tempo strip                *)
(***************************************************************************)

\* the first position >= pos where rx matches, 0 when there is none
FirstMatch(s, pos, RX(_, _)) ==
    LET c == {i \in pos..Len(s) : RX(s, i).ok}
    IN IF c = {} THEN 0 ELSE Min(c)

\* the segmentation of the line at its voice markers (finditer loop)
RECURSIVE seg_parts(_, _)
seg_parts(line, pos) ==
    LET start == FirstMatch(line, pos, V_TAGGED_SEG_RE)
    IN IF start = 0 THEN (IF pos <= Len(line) THEN <<From(line, pos)>> ELSE <<>>)
       ELSE LET end == V_TAGGED_SEG_RE(line, start).end
            IN (IF start > pos THEN <<SubSeq(line, pos, start - 1)>> ELSE <<>>)
               \o <<SubSeq(line, start, end - 1)>>
               \o seg_parts(line, end)

has_perc(perc_inline, vid, key) == vid \in DOMAIN perc_inline /\ perc_inline[vid][key] # <<>>

\* variant that injects tempo and meter at every marker of voice 1
inject_qm_every_marker(vid, first_q_done, m_done, a) ==
    (IF a.q_val.some /\ vid = 1 THEN <<"[Q:" \o a.q_val.v \o "]">> ELSE <<>>)
    \o (IF a.m_val.some /\ vid = 1 THEN <<"[M:" \o a.m_val.v \o "]">> ELSE <<>>)

\* the tempo and meter tags injected at a marker of voice vid
inject_qm(vid, first_q_done, m_done, a) ==
    (IF ~first_q_done /\ a.q_val.some /\ vid = 1 THEN <<"[Q:" \o a.q_val.v \o "]">> ELSE <<>>)
    \o (IF ~m_done /\ a.m_val.some /\ vid = 1 THEN <<"[M:" \o a.m_val.v \o "]">> ELSE <<>>)

\* variant in which the default key comes before the percussion override
inject_k_default_first(vid, seg_tail, a) ==
    IF ~Contains(seg_tail, "[K:") /\ a.k_default.some THEN <<"[K:" \o a.k_default.v \o "]">>
    ELSE IF has_perc(a.perc_inline, vid, "K") THEN <<"[K:none]">>
    ELSE <<>>

\* variant that injects the default key whether or not a key tag follows
inject_k_ignoring_inline(vid, seg_tail, a) ==
    IF has_perc(a.perc_inline, vid, "K") THEN <<"[K:none]">>
    ELSE IF a.k_default.some THEN <<"[K:" \o a.k_default.v \o "]">>
    ELSE <<>>

\* the key tag injected at a marker of voice vid whose next part is seg_tail
inject_k(vid, seg_tail, a) ==
    IF has_perc(a.perc_inline, vid, "K") THEN <<"[K:none]">>
    ELSE IF ~Contains(seg_tail, "[K:") /\ a.k_default.some THEN <<"[K:" \o a.k_default.v \o "]">>
    ELSE <<>>

\* variant that injects the percussion-map tags last line first
inject_i_reversed(vid, a) ==
    IF has_perc(a.perc_inline, vid, "I")
    THEN [k \in 1..Len(a.perc_inline[vid].I) |->
             "[" \o a.perc_inline[vid].I[Len(a.perc_inline[vid].I) + 1 - k] \o "]"]
    ELSE <<>>

\* the percussion-map tags injected at a marker of voice vid
inject_i(vid, a) ==
    IF has_perc(a.perc_inline, vid, "I")
    THEN [k \in 1..Len(a.perc_inline[vid].I) |-> "[" \o a.perc_inline[vid].I[k] \o "]"]
    ELSE <<>>

\* the list `inject` of the loop body, for part i of parts
inject_list(parts, i, first_q_done, m_done, a) ==
    LET vm == V_TAGGED_SEG_RE(parts[i], 1)
        seg_tail == IF i + 1 <= Len(parts) THEN parts[i + 1] ELSE ""
    IN IF ~vm.ok THEN <<>>
       ELSE inject_qm(vm.vid, first_q_done, m_done, a)
            \o inject_k(vm.vid, seg_tail, a)
            \o inject_i(vm.vid, a)

\* the while loop over parts: for every part, the list `inject` built for it
\* (empty for a part that is no marker), with the two once-only flags threaded
RECURSIVE inject_loop(_, _, _, _, _)
inject_loop(parts, i, first_q_done, m_done, a) ==
    IF i > Len(parts) THEN <<>>
    ELSE LET vm == V_TAGGED_SEG_RE(parts[i], 1)
             is_one == vm.ok /\ vm.vid = 1
         IN <<inject_list(parts, i, first_q_done, m_done, a)>>
            \o inject_loop(parts, i + 1,
                           first_q_done \/ (is_one /\ a.q_val.some),
                           m_done \/ (is_one /\ a.m_val.some), a)

\* result_parts: each part followed by what was injected after it
result_parts(parts, injects) == [i \in 1..Len(parts) |-> parts[i] \o Join(injects[i], "")]

\* a: [q_val, m_val, k_default, perc_inline]; vmeta and group_map are not read
inject_first_line_tags(line, a) ==
    LET parts == seg_parts(line, 1)
    IN Join(result_parts(parts, inject_loop(parts, 1, FALSE, FALSE, a)), "")

\* _V_INLINE_Q_RE.sub(...): mark the legal [V:n][Q:...] pairs
RECURSIVE protect_q(_)
protect_q(line) ==
    LET i == FirstMatch(line, 1, V_INLINE_Q_RE)
    IN IF i = 0 THEN line
       ELSE LET m == V_INLINE_Q_RE(line, i)
            IN SubSeq(line, 1, i - 1) \o m.g1 \o "<QPROTECTED>"
               \o SubSeq(m.g2, 2, Len(m.g2) - 1) \o "</QPROTECTED>"
               \o protect_q(From(line, m.end))

\* _ANY_Q_INLINE_RE.sub('', ...)
RECURSIVE drop_q(_)
drop_q(line) ==
    LET i == FirstMatch(line, 1, ANY_Q_INLINE_RE)
    IN IF i = 0 THEN line
       ELSE SubSeq(line, 1, i - 1) \o drop_q(From(line, ANY_Q_INLINE_RE(line, i).end))

strip_floating_q(line) ==
    Replace(Replace(drop_q(protect_q(line)), "<QPROTECTED>", "["), "</QPROTECTED>", "]")

(***************************************************************************)
(* cleaner.py: ABCCleaner.encode                                           *)
(***************************************************************************)

Map(seq, F(_)) == [k \in 1..Len(seq) |-> F(seq[k])]

NonBlank(ln) == Strip(ln) # ""

NotUnitLength(ln) == ~StartsWith(ln, "L:1/8")

\* the locals of encode, in the order the method computes them
\* lines 28-31: end-of-line normalisation, the clef shortening, the non-blank lines
encode_lines(text_in) ==
    SelectSeq(SplitOn(Replace(Replace(shorten_clef(text_in), "\r\n", "\n"), "\r", "\n"), "\n"),
              NonBlank)

\* lines 34-37: the split, hb being the pair _split_header_bars returned
encode_split(lines, hb) ==
    [lines |-> lines, header |-> SelectSeq(hb.header, NotUnitLength), body |-> hb.body]

\* lines 40-46: the header fields, col being what _collect_v_and_percmap returned
encode_extract(e, col) ==
    e @@ [q_val |-> pick_once(e.header, Q_RE), m_val |-> pick_once(e.header, M_RE),
          k_val |-> pick_once(e.header, K_RE), score_body |-> pick_once(e.header, SCORE_RE),
          vmeta_in |-> col.vmeta, percussive_inline |-> col.percussive_inline]

\* line 49
encode_groups(e) ==
    e @@ [group_map |-> IF e.score_body.some /\ e.score_body.v # ""
                        THEN build_group_map(e.score_body.v) ELSE EmptyDict]

\* encode without the call of line 52
encode_without_broadcast(e) == e @@ [vmeta |-> e.vmeta_in]

\* line 52
encode_broadcast(e) == e @@ [vmeta |-> broadcast_snm(e.vmeta_in, e.group_map)]

\* line 57
encode_render(e) == e @@ [compact_header |-> render_tagged_v_header(e.vmeta, e.group_map)]

\* the keyword arguments of _inject_first_line_tags that it reads
inject_args(e) ==
    [q_val |-> e.q_val, m_val |-> e.m_val, k_default |-> e.k_val,
     perc_inline |-> e.percussive_inline]

\* variant that injects the tags into every body line
encode_inject_every_line(e) ==
    IF Len(e.body) = 0 THEN e @@ [parts |-> <<>>, injects |-> <<>>, injected |-> <<>>]
    ELSE e @@ [parts |-> seg_parts(e.body[1], 1),
               injects |-> inject_loop(seg_parts(e.body[1], 1), 1, FALSE, FALSE, inject_args(e)),
               injected |-> [k \in 1..Len(e.body) |->
                                inject_first_line_tags(e.body[k], inject_args(e))]]

\* lines 60-70: the first body line with its tags; parts and injects are the
\* locals of _inject_first_line_tags for that line
encode_inject(e) ==
    IF Len(e.body) = 0 THEN e @@ [parts |-> <<>>, injects |-> <<>>, injected |-> <<>>]
    ELSE e @@ [parts |-> seg_parts(e.body[1], 1),
               injects |-> inject_loop(seg_parts(e.body[1], 1), 1, FALSE, FALSE, inject_args(e)),
               injected |-> <<inject_first_line_tags(e.body[1], inject_args(e))>> \o Tail(e.body)]

\* lines 73-75
encode_bars(e) == e @@ [bars |-> Map(Map(e.injected, strip_floating_q), RemoveSpace)]

\* lines 78-79
encode_text(e) == e @@ [text |-> Join(e.compact_header \o e.bars, "\n")]

encode_header(e) == encode_extract(e, collect_v_and_percmap(e.header))

encode_from_lines(lines) == encode_header(encode_split(lines, split_header_bars(lines)))

\* the locals of encode, in the order the code computes them, and its text
encode(text_in) ==
    encode_text(encode_bars(encode_inject(encode_render(encode_broadcast(
        encode_groups(encode_from_lines(encode_lines(text_in))))))))

\* the number of digits int() converts; beyond it int() raises ValueError
\* (sys.int_info.default_max_str_digits of the interpreter)
IntMaxStrDigits == 4300

\* int(text) raises, for the runs of digits the regular expressions hand to it
int_raises(digits) == Len(digits) > IntMaxStrDigits

\* line 122, outside any try: vid = int(vm.group(1)) raises for some V-line
collect_raises(header) ==
    \E k \in 1..Len(header) :
        V_RE(Strip(header[k])).ok /\ int_raises(V_RE(Strip(header[k])).g1)

\* group 1 of \[V:\s*(\d+)\] matched at position i, or "" without a match
marker_digits(s, i) ==
    IF ~StartsWithAt(s, "[V:", i) THEN ""
    ELSE IF Ch(s, RunEnd(s, RunEnd(s, i + 3, Space), Digits)) # "]" THEN ""
    ELSE SubSeq(s, RunEnd(s, i + 3, Space), RunEnd(s, RunEnd(s, i + 3, Space), Digits) - 1)

\* line 370, outside any try: vid = int(vm.group(1)) raises for some marker
inject_raises(line) == \E i \in 1..Len(line) : int_raises(marker_digits(line, i))

\* encode raises: in _collect_v_and_percmap, or in _inject_first_line_tags on
\* the first body line
split_raises(e) == collect_raises(e.header) \/ (Len(e.body) > 0 /\ inject_raises(e.body[1]))

lines_raise(lines) == split_raises(encode_split(lines, split_header_bars(lines)))

encode_raises(text_in) == lines_raise(encode_lines(text_in))

(***************************************************************************)
(* mess.py: split, probe and the compact voice lines                       *)
(***************************************************************************)

\* str.splitlines() followed by the skip of blank lines
SplitLines(text) ==
    SelectSeq(SplitOn(Replace(Replace(text, "\r\n", "\n"), "\r", "\n"), "\n"), NonBlank)

IsHeadLine(ln) == Ch(ln, 1) \in Alpha /\ Ch(ln, 2) = ":"

IsBodyLine(ln) == ~IsHeadLine(ln)

split_head_body(abc) ==
    [head |-> SelectSeq(SplitLines(abc), IsHeadLine),
     body |-> SelectSeq(SplitLines(abc), IsBodyLine)]

\* \[X:[^\]]+\] matched at position i, for a one-letter tag X
TagRe(s, i, letter) ==
    LET e == Find(s, "]", i + 3)
    IN IF StartsWithAt(s, "[" \o letter \o ":", i) /\ e > i + 3
       THEN [ok |-> TRUE, end |-> e + 1]
       ELSE [ok |-> FALSE, end |-> i]

RE_TAG_Q(s, i) == TagRe(s, i, "Q")

RE_TAG_M(s, i) == TagRe(s, i, "M")

RE_TAG_K(s, i) == TagRe(s, i, "K")

\* rx.search(ln): the text between the brackets of the first match, or None
TagSearch(ln, RX(_, _)) ==
    LET i == FirstMatch(ln, 1, RX)
    IN IF i = 0 THEN None ELSE Some(SubSeq(ln, i + 1, RX(ln, i).end - 2))

\* one iteration of the loop of probe_qmk_from_body
probe_line(st, ln) ==
    LET mq == TagSearch(ln, RE_TAG_Q)
        mm == TagSearch(ln, RE_TAG_M)
        mk == TagSearch(ln, RE_TAG_K)
        kval == Strip(From(mk.v, 3))
    IN [q |-> IF ~st.q.some /\ mq.some THEN mq ELSE st.q,
        m |-> IF ~st.m.some /\ mm.some THEN mm ELSE st.m,
        k |-> IF ~st.k.some /\ mk.some /\ Lower(kval) # "none"
              THEN Some("K:" \o kval) ELSE st.k]

\* `if q and m and k: break`: the probe stops once all three are found
RECURSIVE probe_loop(_, _)
probe_loop(st, body_lines) ==
    IF Len(body_lines) = 0 \/ (st.q.some /\ st.m.some /\ st.k.some) THEN st
    ELSE probe_loop(probe_line(st, Head(body_lines)), Tail(body_lines))

probe_qmk_from_body(body_lines) == probe_loop([q |-> None, m |-> None, k |-> None], body_lines)

\* CLEF_MAP.get(clef.lower(), clef)
CLEF_MAP(clef) ==
    LET c == Lower(clef)
    IN IF c \in {"treb", "treble"} THEN "treble"
       ELSE IF c \in {"alto", "bass", "perc"} THEN c
       ELSE clef

IsBracketed(grp) ==
    (StartsWith(grp, "(") /\ EndsWith(grp, ")")) \/ (StartsWith(grp, "{") /\ EndsWith(grp, "}"))

\* one line of parse_vdefs_simple: the VDef, or ok = FALSE when the line is skipped;
\* group "" stands for None (the code only tests the group for truth)
parse_vdef(ln) ==
    LET five == SplitWs(ln, 4)
        four == SplitWs(ln, 3)
        parts == IF Len(five) < 5 THEN four ELSE five
        colon == SplitOn(parts[1], ":")
        grp == IF Len(five) < 5 THEN "" ELSE Strip(parts[5])
        skip == [ok |-> FALSE, vid |-> 0, clef |-> "", transpose |-> 0, name |-> "", group |-> ""]
    IN IF ~StartsWith(ln, "V:") \/ Len(parts) < 4 THEN skip
       ELSE IF ~IsIntText(colon[2]) THEN skip
       ELSE [ok |-> TRUE,
             vid |-> IntOfText(colon[2]),
             clef |-> CLEF_MAP(parts[2]),
             transpose |-> IF IsIntText(parts[3]) THEN IntOfText(parts[3]) ELSE 0,
             name |-> parts[4],
             group |-> IF grp # "" /\ IsBracketed(grp) THEN grp ELSE ""]

IsParsed(v) == v.ok

\* list.sort(key=vid): a stable insertion sort
RECURSIVE SortByVid(_)
SortByVid(vs) ==
    IF Len(vs) = 0 THEN <<>>
    ELSE LET m == Min({vs[k].vid : k \in 1..Len(vs)})
             i == Min({k \in 1..Len(vs) : vs[k].vid = m})
         IN <<vs[i]>> \o SortByVid(SubSeq(vs, 1, i - 1) \o SubSeq(vs, i + 1, Len(vs)))

parse_vdefs_simple(lines) == SortByVid(SelectSeq(Map(lines, parse_vdef), IsParsed))

(***************************************************************************)
(* mess.py: group tokens, the layout directive and the rebuilt header      *)
(***************************************************************************)

\* the character loop of _split_top_level_pipes; st: [out, buf, lvl]
RECURSIVE pipes_loop(_, _, _)
pipes_loop(s, i, st) ==
    IF i > Len(s) THEN st
    ELSE LET ch == Ch(s, i)
             tok == Strip(st.buf)
         IN IF ch \in {"(", "{"}
            THEN pipes_loop(s, i + 1, [st EXCEPT !.lvl = @ + 1, !.buf = @ \o ch])
            ELSE IF ch \in {")", "}"}
            THEN pipes_loop(s, i + 1, [st EXCEPT !.lvl = @ - 1, !.buf = @ \o ch])
            ELSE IF ch = "|" /\ st.lvl = 0
            THEN pipes_loop(s, i + 1, [st EXCEPT !.out = IF tok # "" THEN Append(@, tok) ELSE @,
                                                 !.buf = ""])
            ELSE pipes_loop(s, i + 1, [st EXCEPT !.buf = @ \o ch])

split_top_level_pipes(s) ==
    LET st == pipes_loop(s, 1, [out |-> <<>>, buf |-> "", lvl |-> 0])
        tok == Strip(st.buf)
    IN IF tok # "" THEN Append(st.out, tok) ELSE st.out

\* s.strip()[1:-1].strip()
Inner(s) == Strip(SubSeq(Strip(s), 2, Len(Strip(s)) - 1))

IsDigitText(x) == IsDigits(Strip(x))

NatOfText(x) == DigitsToNat(Strip(x))

\* [int(x) for x in pieces if x.strip().isdigit()]
NumsOf(pieces) == Map(SelectSeq(pieces, IsDigitText), NatOfText)

\* "( " + " ".join(map(str, nums)) + " )", or the bare number when there is one
NormNums(nums) ==
    IF Len(nums) = 1 THEN IntToStr(nums[1])
    ELSE "( " \o Join(Map(nums, IntToStr), " ") \o " )"

norm_paren_token(s) ==
    LET nums == NumsOf(SplitOn(Inner(s), "|"))
    IN IF Len(nums) = 0 THEN "( )" ELSE NormNums(nums)

\* the normalized arm of a brace token, or "" when the arm is dropped
norm_arm(arm) ==
    IF StartsWith(arm, "(") /\ EndsWith(arm, ")") THEN norm_paren_token(arm)
    ELSE LET nums == NumsOf(split_top_level_pipes(arm))
         IN IF Len(nums) = 0 THEN "" ELSE NormNums(nums)

NonEmpty(x) == x # ""

norm_brace_token(s) ==
    LET norm_arms == SelectSeq(Map(split_top_level_pipes(Inner(s)), norm_arm), NonEmpty)
    IN IF Len(norm_arms) = 0 THEN "{ }" ELSE "{ " \o Join(norm_arms, " | ") \o " }"

RECURSIVE Flatten(_)
Flatten(seqs) == IF Len(seqs) = 0 THEN <<>> ELSE Head(seqs) \o Flatten(Tail(seqs))

arm_members(arm) ==
    IF StartsWith(arm, "(") /\ EndsWith(arm, ")") THEN NumsOf(SplitOn(Inner(arm), "|"))
    ELSE NumsOf(split_top_level_pipes(arm))

group_members(g) ==
    LET s == Strip(g)
    IN IF StartsWith(s, "(") /\ EndsWith(s, ")") THEN NumsOf(SplitOn(Inner(s), "|"))
       ELSE IF StartsWith(s, "{") /\ EndsWith(s, "}")
       THEN Flatten(Map(split_top_level_pipes(Inner(s)), arm_members))
       ELSE <<>>

Range(seq) == {seq[k] : k \in 1..Len(seq)}

\* sorted(ids) for a list of integers, repeated values kept
RECURSIVE SortedList(_)
SortedList(ids) ==
    IF Len(ids) = 0 THEN <<>>
    ELSE LET m == Min(Range(ids))
             i == Min({k \in 1..Len(ids) : ids[k] = m})
         IN <<m>> \o SortedList(SubSeq(ids, 1, i - 1) \o SubSeq(ids, i + 1, Len(ids)))

group_key(g) ==
    (IF StartsWith(g, "(") THEN "P:" ELSE "B:")
    \o Join(Map(SortedList(group_members(g)), IntToStr), ",")

\* the iteration without the test `key not in seen_group_keys`
appearance_step_every_line(st, v) ==
    IF v.group = "" THEN st
    ELSE [seen_group_keys |-> st.seen_group_keys \cup {group_key(v.group)},
          tokens |-> Append(st.tokens, IF StartsWith(v.group, "(") THEN norm_paren_token(v.group)
                                       ELSE norm_brace_token(v.group)),
          grouped_members |-> st.grouped_members \cup Range(group_members(v.group)),
          rep_for_nm |-> st.rep_for_nm
                         \cup {IF group_members(v.group) # <<>> THEN Min(Range(group_members(v.group)))
                                ELSE v.vid}]

\* one iteration of the first loop of build_score_tokens_in_appearance
appearance_step(st, v) ==
    LET key == group_key(v.group)
        ids == Range(group_members(v.group))
        rep == IF ids # {} THEN Min(ids) ELSE v.vid
        tok == IF StartsWith(v.group, "(") THEN norm_paren_token(v.group)
               ELSE norm_brace_token(v.group)
    IN IF v.group # "" /\ key \notin st.seen_group_keys
       THEN [seen_group_keys |-> st.seen_group_keys \cup {key},
             tokens |-> Append(st.tokens, tok),
             grouped_members |-> st.grouped_members \cup ids,
             rep_for_nm |-> st.rep_for_nm \cup {rep}]
       ELSE st

RECURSIVE appearance_loop(_, _)
appearance_loop(st, vdefs) ==
    IF Len(vdefs) = 0 THEN st ELSE appearance_loop(appearance_step(st, Head(vdefs)), Tail(vdefs))

\* the end of build_score_tokens_in_appearance, st being the state the first
\* loop left; rep_for_nm is kept as its key set: render_head only tests membership
appearance_singles(st, vdefs) ==
    LET Single(v) == v.vid \notin st.grouped_members
        Vid(v) == v.vid
    IN Map(SelectSeq(vdefs, Single), Vid)

appearance_result(st, singles) ==
    [tokens |-> st.tokens \o Map(singles, IntToStr),
     rep_for_nm |-> st.rep_for_nm \cup Range(singles)]

appearance_finish(st, vdefs) == appearance_result(st, appearance_singles(st, vdefs))

build_score_tokens_in_appearance(vdefs) ==
    appearance_finish(appearance_loop([seen_group_keys |-> {}, tokens |-> <<>>,
                                       grouped_members |-> {}, rep_for_nm |-> {}], vdefs),
                      vdefs)

\* a voice declaration that carries the name fields for every voice
render_v_line_always_named(v, rep_for_nm) ==
    Join(<<"V:" \o IntToStr(v.vid), v.clef>>
         \o (IF v.clef = "perc" THEN <<"stafflines=1">> ELSE <<>>)
         \o (IF v.transpose # 0 THEN <<"transpose=" \o IntToStr(v.transpose)>> ELSE <<>>)
         \o <<"nm=\"" \o v.name \o "\"", "snm=\"" \o v.name \o "\"">>,
         " ")

\* one voice declaration of the rebuilt header
render_v_line(v, rep_for_nm) ==
    Join(<<"V:" \o IntToStr(v.vid), v.clef>>
         \o (IF v.clef = "perc" THEN <<"stafflines=1">> ELSE <<>>)
         \o (IF v.transpose # 0 THEN <<"transpose=" \o IntToStr(v.transpose)>> ELSE <<>>)
         \o (IF v.vid \in rep_for_nm /\ v.name # ""
             THEN <<"nm=\"" \o v.name \o "\"", "snm=\"" \o v.name \o "\"">> ELSE <<>>),
         " ")

\* the header with the voice declarations ahead of the global fields
render_head_lines_voices_first(vdefs, sc, p) ==
    <<"%%score " \o Join(sc.tokens, " ")>>
    \o [k \in 1..Len(vdefs) |-> render_v_line(vdefs[k], sc.rep_for_nm)]
    \o <<"L:1/8">>
    \o (IF p.q.some THEN <<p.q.v>> ELSE <<>>)
    \o (IF p.m.some THEN <<p.m.v>> ELSE <<>>)
    \o (IF p.k.some THEN <<p.k.v>> ELSE <<>>)

\* the lines of render_head, sc and p being what the two helpers returned
render_head_lines(vdefs, sc, p) ==
    <<"%%score " \o Join(sc.tokens, " "), "L:1/8">>
    \o (IF p.q.some THEN <<p.q.v>> ELSE <<>>)
    \o (IF p.m.some THEN <<p.m.v>> ELSE <<>>)
    \o (IF p.k.some THEN <<p.k.v>> ELSE <<>>)
    \o [k \in 1..Len(vdefs) |-> render_v_line(vdefs[k], sc.rep_for_nm)]

render_head(vdefs, body_lines) ==
    render_head_lines(vdefs, build_score_tokens_in_appearance(vdefs),
                      probe_qmk_from_body(body_lines))

\* line 264 and line 262: the text returned with and without voice definitions
restore_text(r) ==
    r @@ [text |-> IF Len(r.vdefs) = 0
                   THEN Join(r.head \o r.body, "\n")
                        \o (IF Len(r.head) + Len(r.body) > 0 THEN "\n" ELSE "")
                   ELSE Join(r.head_out \o r.body, "\n") \o "\n"]

\* line 263
restore_head(r) ==
    r @@ [head_out |-> IF Len(r.vdefs) = 0 THEN r.head ELSE render_head(r.vdefs, r.body)]

\* lines 259-260
restore_parse(hb) == [head |-> hb.head, body |-> hb.body, vdefs |-> parse_vdefs_simple(hb.head)]

\* the locals of restore_text_simple and the text it returns
restore_text_simple(abc_cleaned) ==
    restore_text(restore_head(restore_parse(split_head_body(abc_cleaned))))

(***************************************************************************)
(* The inputs: bounded families of ABC documents                           *)
(***************************************************************************)

\* all sequences of at most n elements of S
SeqsUpTo(S, n) == UNION {[1..k -> S] : k \in 0..n}

\* the documents with a header of headers and a body of bodies, as text
Docs(headers, bodies) == {Join(h \o b, "\n") : h \in headers, b \in bodies}

MaxVoices == 2

MaxSegs == 2

VoiceLines ==
    {"V:1 clef=treble nm=\"Violin\"",
     "V:2 clef=bass nm=\"Cello\"",
     "V:1 clef=treble transpose=0 nm=\"Flute\" snm=\"Fl.\"",
     "V:2 clef=treble nm=\"Oboe\"",
     "V:3 perc transpose=-12 snm=\"Dr um\"",
     "V:4"}

ScoreBlocks ==
    {<<>>, <<"%%score {1|2}">>, <<"%%score (1|2)">>, <<"%%score {(1|2)|3} 4">>}

GlobalBlocks == {<<>>, <<"L:1/8", "Q:1/4=100", "M:2/4", "K:C">>}

RoundBodies == {<<>>, <<"[V:1]abc|[V:2]def">>}

\* layout directive, global fields, then the voice declarations
RoundHeaders ==
    {sc \o g \o v : sc \in ScoreBlocks, g \in GlobalBlocks, v \in SeqsUpTo(VoiceLines, MaxVoices)}

RoundDocs == Docs(RoundHeaders, RoundBodies)

\* the subsequences of the three global field lines
FieldBlocks ==
    {SelectSeq(<<"Q:1/4=120", "M:4/4", "K:C">>, LAMBDA ln : ln \in keep) :
        keep \in SUBSET {"Q:1/4=120", "M:4/4", "K:C"}}

\* voice 1 alone, or with a percussion voice 3 and its override lines
PercBlocks ==
    {<<"V:1 treble">>,
     <<"V:1 treble", "V:3 perc", "K:none", "I:percmap D drum 38", "I:percmap F kick 36">>,
     <<"V:3 clef=perc", "I:percmap D drum 38", "V:1 treble">>}

Segs == {"[V:1]", "[V:3]", "[Q:1/4=90]", "[K:G]", "a b|"}

\* first lines in which a key change comes later inside a segment
LateKeyLines == {"[V:1]c[K:G]", "[V:3]c[K:G]d|[V:1]e"}

FirstLines == {Join(sg, "") : sg \in SeqsUpTo(Segs, MaxSegs)} \cup LateKeyLines

SecondLines == {<<>>, <<"[V:1][Q:3/8=60]c|d[Q:1/4=90]e|">>}

InjectBodies == {<<f>> \o t : f \in FirstLines, t \in SecondLines}

InjectHeaders == {g \o v : g \in FieldBlocks, v \in PercBlocks}

InjectDocs == Docs(InjectHeaders, InjectBodies)

(***************************************************************************)
(* The operations                                                          *)
(***************************************************************************)

\* the value of a variable before the operation that sets it has run
Unset == <<>>

\* clean.py clean_abc: cleaner.encode(text) returns, or raises ValueError
Encode ==
    /\ pc = "start"
    /\ pc' = IF encode_raises(input) THEN "raised" ELSE "encoded"
    /\ enc' = IF encode_raises(input) THEN Unset ELSE encode(input)
    /\ UNCHANGED <<input, dec, walk, bc, hsplit, batch>>

\* mess.py process_file: restore_text_simple on the cleaned text
Restore ==
    /\ pc = "encoded"
    /\ pc' = "restored"
    /\ dec' = restore_text_simple(enc.text)
    /\ UNCHANGED <<input, enc, walk, bc, hsplit, batch>>

InitDocs(docs) ==
    /\ pc = "start"
    /\ input \in docs
    /\ enc = Unset /\ dec = Unset /\ walk = Unset /\ bc = Unset /\ hsplit = Unset /\ batch = Unset

Init == InitDocs(RoundDocs)

Next == Encode \/ Restore

Spec == Init /\ [][Next]_vars

InitInject == InitDocs(InjectDocs)

SpecInject == InitInject /\ [][Encode]_vars

(***************************************************************************)
(* The walk of _build_group_map, one token per step                        *)
(***************************************************************************)

MaxPayloadLen == 5

ScoreChars == {"(", ")", "{", "}", "1", "2"}

NamedPayloads ==
    {"{(1|2)|3}", "{1} {(1|2)}", "{{(1)}}", "(1|2", "{(1|2}", ") 3 {(1})",
     "{(1|2)|3} 4", "10 (2 x 10) {2}", "(1 {2 3} 1)"}

ScorePayloads == {Join(cs, "") : cs \in SeqsUpTo(ScoreChars, MaxPayloadLen)} \cup NamedPayloads

Walking == pc = "walking" /\ walk.i <= Len(walk.tokens)

Tokenize ==
    /\ pc = "start"
    /\ pc' = "walking"
    /\ walk' = walk_start(input)
    /\ UNCHANGED <<input, enc, dec, bc, hsplit, batch>>

WalkOpen ==
    /\ Walking /\ walk.tokens[walk.i] \in {"(", "{"}
    /\ walk' = walk_open(walk)
    /\ UNCHANGED <<pc, input, enc, dec, bc, hsplit, batch>>

WalkClose ==
    /\ Walking /\ walk.tokens[walk.i] \in {")", "}"}
    /\ walk' = walk_close(walk)
    /\ UNCHANGED <<pc, input, enc, dec, bc, hsplit, batch>>

WalkSeparator ==
    /\ Walking /\ walk.tokens[walk.i] = "|"
    /\ walk' = walk_separator(walk)
    /\ UNCHANGED <<pc, input, enc, dec, bc, hsplit, batch>>

WalkNumber ==
    /\ Walking /\ walk.tokens[walk.i] \notin {"(", "{", ")", "}", "|"}
    /\ walk' = walk_number(walk)
    /\ UNCHANGED <<pc, input, enc, dec, bc, hsplit, batch>>

\* the end of _build_group_map: the two maps are merged and returned
WalkMerge ==
    /\ pc = "walking" /\ walk.i > Len(walk.tokens)
    /\ pc' = "merged"
    /\ walk' = [tokens |-> walk.tokens, paren_map |-> walk.paren_map,
                brace_map |-> walk.brace_map,
                group_map |-> merge_group_map(walk.paren_map, walk.brace_map)]
    /\ UNCHANGED <<input, enc, dec, bc, hsplit, batch>>

InitScore == InitDocs(ScorePayloads)

NextScore == Tokenize \/ WalkOpen \/ WalkClose \/ WalkSeparator \/ WalkNumber \/ WalkMerge

SpecScore == InitScore /\ [][NextScore]_vars

(***************************************************************************)
(* _split_header_bars on its own                                           *)
(***************************************************************************)

MaxLines == 3

SplitVocabulary ==
    {"K:C", "  M:4/4 ", "%%score 1 2", "%abc", "abc|", "[K:C]d", "1:x", "a:", "V :1", " %% x"}

SplitInputs == SeqsUpTo(SplitVocabulary, MaxLines)

SplitHeaderBars ==
    /\ pc = "start"
    /\ pc' = "split"
    /\ hsplit' = split_header_bars(input)
    /\ UNCHANGED <<input, enc, dec, walk, bc, batch>>

InitSplit == InitDocs(SplitInputs)

SpecSplit == InitSplit /\ [][SplitHeaderBars]_vars

(***************************************************************************)
(* _broadcast_snm applied repeatedly to one voice-metadata map             *)
(***************************************************************************)

MaxVid == 3

MaxCalls == 2

ShortNames == {"", "Fl.", " Ob "}

Descriptors == {"(1|2)", "{1|2|3}", "(3)"}

VoiceMetas ==
    UNION {[ids -> {[clef |-> "", transpose |-> 0, nm |-> "", snm |-> n] : n \in ShortNames}] :
              ids \in SUBSET (1..MaxVid)}

GroupMaps == UNION {[ids -> Descriptors] : ids \in SUBSET (1..MaxVid)}

BroadcastInputs == {[vmeta |-> vm, group_map |-> gm] : vm \in VoiceMetas, gm \in GroupMaps}

InitBroadcast ==
    /\ pc = "start"
    /\ input \in BroadcastInputs
    /\ bc = [vmeta |-> input.vmeta, once |-> input.vmeta, calls |-> 0]
    /\ enc = Unset /\ dec = Unset /\ walk = Unset /\ hsplit = Unset /\ batch = Unset

\* one call of _broadcast_snm on the map the previous call left; once keeps the
\* map as it was after the first call
Broadcast ==
    /\ bc.calls < MaxCalls
    /\ bc' = [vmeta |-> broadcast_snm(bc.vmeta, input.group_map),
              once |-> IF bc.calls = 0 THEN broadcast_snm(bc.vmeta, input.group_map) ELSE bc.once,
              calls |-> bc.calls + 1]
    /\ pc' = "broadcast"
    /\ UNCHANGED <<input, enc, dec, walk, hsplit, batch>>

SpecBroadcast == InitBroadcast /\ [][Broadcast]_vars

(***************************************************************************)
(* encode on documents composed from parts: one parenthesis group          *)
(***************************************************************************)

ComposeNames == {"Fl.", "Fl ob"}

ComposeKeys == {"C", "none"}

ComposeTexts == {"abc|", "d e"}

ComposeSeparators == {"|", " "}

\* the orders in which the markers of the voices ids can stand in a line
Orders(ids) == {o \in [1..Cardinality(ids) -> ids] : Range(o) = ids}

\* ids: the voices of the group; snm: the short name of the lowest voice; k: the
\* header key; order: the markers of the first body line; lead, rest: the text
\* after the first marker and after every other marker; sep: the separator the
\* layout directive is written with
ComposeInputs ==
    UNION {[ids : {ids}, snm : ComposeNames, k : ComposeKeys, order : Orders(ids),
            lead : ComposeTexts, rest : ComposeTexts, sep : ComposeSeparators] :
              ids \in (SUBSET (1..MaxVid)) \ {{}}}

compose_voice_line(c, v) ==
    IF v = Min(c.ids)
    THEN "V:" \o IntToStr(v) \o " clef=treble transpose=0 nm=\"Flute\" snm=\"" \o c.snm \o "\""
    ELSE "V:" \o IntToStr(v) \o " clef=bass nm=\"Oboe\""

compose_header(c) ==
    <<"%%score (" \o Join(Map(Sorted(c.ids), IntToStr), c.sep) \o ")",
      "Q:1/4=100", "M:2/4", "K:" \o c.k>>
    \o [j \in 1..Cardinality(c.ids) |-> compose_voice_line(c, Sorted(c.ids)[j])]

compose_text(c, j) == IF j = 1 THEN c.lead ELSE c.rest

compose_body(c) ==
    Join([j \in 1..Len(c.order) |-> "[V:" \o IntToStr(c.order[j]) \o "]" \o compose_text(c, j)], "")

\* the text handed to encode
compose_doc(c) == Join(compose_header(c) \o <<compose_body(c)>>, "\n")

\* clean.py clean_abc: cleaner.encode(text) on the composed document
EncodeComposed ==
    /\ pc = "start"
    /\ pc' = IF encode_raises(compose_doc(input)) THEN "raised" ELSE "encoded"
    /\ enc' = IF encode_raises(compose_doc(input)) THEN Unset ELSE encode(compose_doc(input))
    /\ UNCHANGED <<input, dec, walk, bc, hsplit, batch>>

InitCompose == InitDocs(ComposeInputs)

SpecCompose == InitCompose /\ [][EncodeComposed]_vars

(***************************************************************************)
(* restore_text_simple on cleaned documents                                *)
(***************************************************************************)

MaxCleanedVoices == 2

MaxBodyLines == 2

\* compact voice lines as encode renders them: full, without short name,
\* without clef, without group, with an id that two groups list, with a group
\* that names no voice
CleanedVoiceLines ==
    {"V:1 treb 0 Fl. (1|2)",
     "V:2 bass -12 Fl. (1|2)",
     "V:3 perc 0 Dr. (2|3)",
     "V:3 alto 0 Ob. {(1|2)|3}",
     "V:4 treb+8 2 Hn",
     "V:2 treb 0 (2)",
     "V:5 0 Vc. (5)",
     "V:1 perc 0 Dr. {1}",
     "V:2 bass 0 Ob. ( )"}

CleanedHeads == SeqsUpTo(CleanedVoiceLines, MaxCleanedVoices)

\* no body, a tagged line, and bodies holding a lyrics line and a key change
TaggedBodies ==
    {<<>>,
     <<"[V:1][Q:1/4=90][M:3/4][K:C]ab|[V:2][K:none]c">>,
     <<"[V:1][K:C]ab|", "w:lala">>,
     <<"[V:1]ab|", "K:D", "cd|">>}

\* body lines holding tags in different orders, alone and in pairs
ProbeLines ==
    {"[Q:1/4=90]", "[M:3/4]", "[K:none]", "[K: G ]", "[V:1]ab|",
     "[K:none][K: G ]", "[K: G ][K:none]", "[Q:1/4=90][M:3/4]", "[M:3/4][Q:2]",
     "[V:1]ab|[K:none]"}

ProbeBodies == SeqsUpTo(ProbeLines, MaxBodyLines)

\* many headers over two bodies, and one header over many bodies
CleanedDocs ==
    Docs(CleanedHeads, TaggedBodies) \cup Docs({<<"V:1 treb 0 Fl. (1)">>}, ProbeBodies)

\* mess.py process_file: restore_text_simple on the text read from the file
RestoreCleaned ==
    /\ pc = "start"
    /\ pc' = "restored"
    /\ dec' = restore_text_simple(input)
    /\ UNCHANGED <<input, enc, walk, bc, hsplit, batch>>

InitCleaned == InitDocs(CleanedDocs)

SpecCleaned == InitCleaned /\ [][RestoreCleaned]_vars

(***************************************************************************)
(* ABCCleaner.decode                                                       *)
(***************************************************************************)

\* variant of decode that rebuilds the header as the restoration does
decode_restoring(cleaned_text) == restore_text_simple(cleaned_text).text

\* cleaner.py decode: the text is returned as it came
decode(cleaned_text) == cleaned_text

\* decode called on the text encode returned
Decode ==
    /\ pc = "encoded"
    /\ pc' = "decoded"
    /\ dec' = [text |-> decode(enc.text)]
    /\ UNCHANGED <<input, enc, walk, bc, hsplit, batch>>

\* decode called on a text that encode has not seen
DecodeInput ==
    /\ pc = "start"
    /\ pc' = "decoded_input"
    /\ dec' = [text |-> decode(input)]
    /\ UNCHANGED <<input, enc, walk, bc, hsplit, batch>>

NextDecode == Encode \/ Decode \/ DecodeInput

SpecDecode == Init /\ [][NextDecode]_vars

(***************************************************************************)
(* encode on headers with percussion override lines                        *)
(***************************************************************************)

MaxOverrideLines == 3

\* declarations of a percussion voice and of other voices, a second declaration
\* of voice 3 with another clef, override lines and unrelated header lines
OverrideHeaderLines ==
    {"V:3 perc", "V:1 treble", "V:3 bass", "K:none", "K:C",
     "I:percmap D drum 38", "I:percmap F kick 36", "M:4/4"}

OverrideHeaders == SeqsUpTo(OverrideHeaderLines, MaxOverrideLines)

OverrideDocs == Docs(OverrideHeaders, {<<"[V:1]a[V:3]b">>})

InitOverride == InitDocs(OverrideDocs)

SpecOverride == InitOverride /\ [][Encode]_vars

(***************************************************************************)
(* encode on malformed documents                                           *)
(***************************************************************************)

MaxHeaderLines == 2

\* a voice id of one digit more than int() converts
LongId == Repeat("1", IntMaxStrDigits + 1)

\* layout directives with unbalanced, mismatched and stray brackets; voice lines
\* without clef or transpose and with unparsable ones
MalformedHeaderLines ==
    {"%%score (1|2", "%%score {(1|2} ) 3 {(1})", "%%score",
     "V:1", "V:2 clef= transpose=x nm=\"", "V:x treble", "V:12 =8 transpose=-",
     "V:3 perc transpose=007"}

MalformedHeaders == SeqsUpTo(MalformedHeaderLines, MaxHeaderLines)

MalformedBodies ==
    {<<>>, <<"[V:1]a|[V: 2]b[V:x][V:]">>, <<"a|", "[V:12345]b|[Q:1/4=90]">>}

\* documents with a long voice id, in a voice line and in a marker
LongIdDocs == {"V:" \o LongId \o " treble\nabc|", "V:1 treble\n[V:" \o LongId \o "]abc|"}

MalformedDocs == Docs(MalformedHeaders, MalformedBodies) \cup LongIdDocs

InitTotal == InitDocs(MalformedDocs)

SpecTotal == InitTotal /\ [][Encode]_vars

(***************************************************************************)
(* clean.py and mess.py: the main loop over directories and files          *)
(***************************************************************************)

MaxDirs == 2

MaxFiles == 2

\* a source directory: missing, or holding a list of files, each of which
\* process_file handles (FALSE) or fails on with an exception (TRUE)
Directories ==
    {[exists |-> FALSE, files |-> <<>>]}
    \cup {[exists |-> TRUE, files |-> fs] : fs \in SeqsUpTo(BOOLEAN, MaxFiles)}

\* ORI_DIRS zipped with TAR_DIRS
DirectoryLists == SeqsUpTo(Directories, MaxDirs)

\* the files of all directories, as <<directory, file>>
FilesOf(dirs) == UNION {{<<d, f>> : f \in 1..Len(dirs[d].files)} : d \in 1..Len(dirs)}

\* main entered, the lengths of ORI_DIRS and TAR_DIRS being equal
InitBatch ==
    /\ pc = "dirs"
    /\ input \in DirectoryLists
    /\ batch = [d |-> 1, f |-> 1, attempts |-> [file \in FilesOf(input) |-> 0],
                warned |-> <<>>, errors |-> <<>>, written |-> <<>>]
    /\ enc = Unset /\ dec = Unset /\ walk = Unset /\ bc = Unset /\ hsplit = Unset

\* `if not ori_path.exists(): print(...); continue`
SkipMissingDirectory ==
    /\ pc = "dirs" /\ batch.d <= Len(input) /\ ~input[batch.d].exists
    /\ batch' = [batch EXCEPT !.d = @ + 1, !.warned = Append(@, batch.d)]
    /\ UNCHANGED <<pc, input, enc, dec, walk, bc, hsplit>>

\* files = list(ori_path.rglob("*.abc")), and the inner loop is entered
ListFiles ==
    /\ pc = "dirs" /\ batch.d <= Len(input) /\ input[batch.d].exists
    /\ pc' = "files"
    /\ batch' = [batch EXCEPT !.f = 1]
    /\ UNCHANGED <<input, enc, dec, walk, bc, hsplit>>

\* one iteration of the inner loop: process_file returns
ProcessFile ==
    /\ pc = "files" /\ batch.f <= Len(input[batch.d].files)
    /\ ~input[batch.d].files[batch.f]
    /\ batch' = [batch EXCEPT !.f = @ + 1,
                              !.attempts[<<batch.d, batch.f>>] = @ + 1,
                              !.written = Append(@, <<batch.d, batch.f>>)]
    /\ UNCHANGED <<pc, input, enc, dec, walk, bc, hsplit>>

\* one iteration in which the exception leaves the loop and main
ProcessFileUncaught ==
    /\ pc = "files" /\ batch.f <= Len(input[batch.d].files)
    /\ input[batch.d].files[batch.f]
    /\ pc' = "raised"
    /\ batch' = [batch EXCEPT !.attempts[<<batch.d, batch.f>>] = @ + 1]
    /\ UNCHANGED <<input, enc, dec, walk, bc, hsplit>>

\* one iteration of the inner loop: process_file raises, `except Exception`
\* catches and prints, and the loop goes on
ProcessFileFails ==
    /\ pc = "files" /\ batch.f <= Len(input[batch.d].files)
    /\ input[batch.d].files[batch.f]
    /\ batch' = [batch EXCEPT !.f = @ + 1,
                              !.attempts[<<batch.d, batch.f>>] = @ + 1,
                              !.errors = Append(@, <<batch.d, batch.f>>)]
    /\ UNCHANGED <<pc, input, enc, dec, walk, bc, hsplit>>

\* the inner loop is exhausted: the next pair of directories
DirectoryDone ==
    /\ pc = "files" /\ batch.f > Len(input[batch.d].files)
    /\ pc' = "dirs"
    /\ batch' = [batch EXCEPT !.d = @ + 1]
    /\ UNCHANGED <<input, enc, dec, walk, bc, hsplit>>

\* the outer loop is exhausted: main returns
MainReturns ==
    /\ pc = "dirs" /\ batch.d > Len(input)
    /\ pc' = "done"
    /\ UNCHANGED <<input, enc, dec, walk, bc, hsplit, batch>>

NextBatch ==
    \/ SkipMissingDirectory \/ ListFiles \/ ProcessFile \/ ProcessFileFails
    \/ DirectoryDone \/ MainReturns

\* main runs to its end: no step of it waits for anything
SpecBatch == InitBatch /\ [][NextBatch]_vars /\ WF_vars(NextBatch)

(***************************************************************************)
(* Helpers of the properties                                               *)
(***************************************************************************)

\* the positions where pattern p occurs in s
Occurrences(s, p) == {i \in 1..Len(s) : StartsWithAt(s, p, i)}

\* the voice markers of a line, in order: [pos, end, vid] for each
MarkersOf(line) ==
    LET at == {i \in 1..Len(line) : V_TAGGED_SEG_RE(line, i).ok}
        ps == Sorted(at)
    IN [k \in 1..Len(ps) |-> [pos |-> ps[k], end |-> V_TAGGED_SEG_RE(line, ps[k]).end,
                              vid |-> V_TAGGED_SEG_RE(line, ps[k]).vid]]

\* the text of a layout directive line covers ids inside one brace pair
CoversInBrace(line, ids) ==
    \E i \in 1..Len(line), j \in 1..Len(line) :
        /\ i < j /\ Ch(line, i) = "{" /\ Ch(line, j) = "}"
        /\ \A n \in ids : IntToStr(n) \in Range(SplitWs(SubSeq(line, i + 1, j - 1), -1))

(***************************************************************************)
(* C1                                                                      *)
(***************************************************************************)

\* the document of the round-trip property: voice 1 treble "Violin", voice 2 bass
\* "Cello", no short names, layout {1|2}
C1_Document ==
    /\ enc.score_body = Some("{1|2}")
    /\ DOMAIN enc.vmeta_in = {1, 2}
    /\ enc.vmeta_in[1] = [clef |-> "treb", transpose |-> 0, nm |-> "Violin", snm |-> ""]
    /\ enc.vmeta_in[2] = [clef |-> "bass", transpose |-> 0, nm |-> "Cello", snm |-> ""]

\* C1: restoring the encoded form of that document yields a %%score line that
\* covers ids 1 and 2 inside a brace, and a V:1 declaration carrying nm="Violin"
C1_RoundTripPreserved ==
    (pc = "restored" /\ C1_Document) =>
        /\ \E k \in 1..Len(dec.head_out) :
              StartsWith(dec.head_out[k], "%%score") /\ CoversInBrace(dec.head_out[k], {1, 2})
        /\ \E k \in 1..Len(dec.head_out) :
              StartsWith(dec.head_out[k], "V:1 ") /\ Contains(dec.head_out[k], "nm=\"Violin\"")

(***************************************************************************)
(* C10                                                                     *)
(***************************************************************************)

\* the voice ids declared by the V: lines of the header
DeclaredIds == {DigitsToNat(V_RE(enc.header[k]).g1) : k \in {j \in 1..Len(enc.header) : V_RE(enc.header[j]).ok}}

\* the shape of the compact line at rank k for the voice vid
C10_LineShape(line, vid) ==
    LET f == SplitWs(line, -1)
        meta == enc.vmeta[vid]
        tran == IntToStr(meta.transpose)
        width == 3 + (IF meta.clef # "" THEN 1 ELSE 0) + (IF meta.snm # "" THEN 1 ELSE 0)
    IN /\ line = Join(f, " ")
       /\ Len(f) = width
       /\ f[1] = "V:" \o IntToStr(vid)
       /\ f[Len(f)] = (IF vid \in DOMAIN enc.group_map THEN enc.group_map[vid] ELSE singleton(vid))
       /\ meta.clef = "" => f[2] = tran
       /\ meta.clef # "" => f[3] = tran
       /\ meta.snm = "" => f[Len(f) - 1] = tran
       /\ meta.snm # "" => f[Len(f) - 1] = Replace(meta.snm, " ", "")

\* C10: the header part of the encode output has exactly one line per distinct
\* declared voice id, in ascending id order; every line ends with the voice's
\* descriptor from the group map, or (id) when the voice is in no group; the
\* clef field is left out when the clef is empty and the short-name field is
\* left out when the short name is empty
C10_CompactHeaderShape ==
    pc # "start" =>
        LET ids == Sorted(DeclaredIds)
            out == SplitOn(enc.text, "\n")
        IN /\ Len(enc.compact_header) = Cardinality(DeclaredIds)
           /\ Len(ids) + Len(enc.bars) > 0 => out = enc.compact_header \o enc.bars
           /\ \A k \in 1..Len(ids) : out[k] = enc.compact_header[k] /\ C10_LineShape(out[k], ids[k])
           /\ \A k \in 1..Len(ids) : \A j \in 1..Len(ids) : k < j => ids[k] < ids[j]

\* an encoded document with a grouped voice and an ungrouped voice that has
\* neither clef nor short name
C10_Witness ==
    /\ pc = "encoded"
    /\ \E u \in DeclaredIds : u \in DOMAIN enc.group_map /\ enc.vmeta[u].snm # ""
    /\ \E v \in DeclaredIds : v \notin DOMAIN enc.group_map /\ enc.vmeta[v].clef = "" /\ enc.vmeta[v].snm = ""

(***************************************************************************)
(* C3                                                                      *)
(***************************************************************************)

\* the inline tag of a header value, as it reads once whitespace is removed
InlineTag(letter, val) == RemoveSpace("[" \o letter \o ":" \o val \o "]")

InBars(tag) == \E k \in 1..Len(enc.bars) : Contains(enc.bars[k], tag)

\* C3: for every input with at least one body line, each of the tempo, meter
\* and default key values extracted from the header is absent from the compact
\* header and present as an inline tag in the encoded body, whatever markers
\* the first body line contains
C3_RelocatedNotLost ==
    (pc = "encoded" /\ Len(enc.body) > 0) =>
        /\ \A k \in 1..Len(enc.compact_header) : StartsWith(enc.compact_header[k], "V:")
        /\ enc.q_val.some => InBars(InlineTag("Q", enc.q_val.v))
        /\ enc.m_val.some => InBars(InlineTag("M", enc.m_val.v))
        /\ enc.k_val.some => InBars(InlineTag("K", enc.k_val.v))

(***************************************************************************)
(* C6                                                                      *)
(***************************************************************************)

\* the indices of the parts of the first body line that are markers of voice vid
MarkerParts(vid) ==
    {i \in 1..Len(enc.parts) : V_TAGGED_SEG_RE(enc.parts[i], 1).ok
                               /\ V_TAGGED_SEG_RE(enc.parts[i], 1).vid = vid}

IsQM(tag) == StartsWith(tag, "[Q:") \/ StartsWith(tag, "[M:")

\* the tempo and meter tags of the header, tempo first
HeaderQM ==
    (IF enc.q_val.some THEN <<"[Q:" \o enc.q_val.v \o "]">> ELSE <<>>)
    \o (IF enc.m_val.some THEN <<"[M:" \o enc.m_val.v \o "]">> ELSE <<>>)

\* the position just after the first marker of voice vid in a line
AfterFirstMarker(line, vid) ==
    LET at == {i \in 1..Len(line) : V_TAGGED_SEG_RE(line, i).ok /\ V_TAGGED_SEG_RE(line, i).vid = vid}
    IN V_TAGGED_SEG_RE(line, Min(at)).end

\* C6: the tempo tag and the meter tag of the header are injected at most once
\* each, both directly after the first [V:1] marker of the first body line, tempo
\* then meter; none is injected after a marker of another voice, after a later
\* [V:1] marker, or in any other body line
C6_SingleInjection ==
    (pc = "encoded" /\ Len(enc.body) > 0) =>
        LET ones == MarkerParts(1)
            qm == Join(HeaderQM, "")
        IN /\ \A i \in 1..Len(enc.parts) :
                 IF ones # {} /\ i = Min(ones)
                 THEN /\ SubSeq(enc.injects[i], 1, Len(HeaderQM)) = HeaderQM
                      /\ \A k \in (Len(HeaderQM) + 1)..Len(enc.injects[i]) : ~IsQM(enc.injects[i][k])
                 ELSE \A k \in 1..Len(enc.injects[i]) : ~IsQM(enc.injects[i][k])
           /\ Tail(enc.injected) = Tail(enc.body)
           /\ \A t \in 1..Len(HeaderQM) :
                 /\ Cardinality(Occurrences(enc.bars[1], RemoveSpace(HeaderQM[t])))
                       = (IF ones = {} THEN 0 ELSE 1)
                 /\ \A k \in 2..Len(enc.bars) : ~Contains(enc.bars[k], RemoveSpace(HeaderQM[t]))
           /\ ones # {} => StartsWithAt(enc.bars[1], RemoveSpace(qm), AfterFirstMarker(enc.bars[1], 1))

\* a header with tempo and meter, and a first body line with a marker of
\* another voice before two markers of voice 1 or with two markers of voice 1
C6_Witness ==
    /\ pc = "encoded" /\ Len(enc.body) > 1
    /\ enc.q_val.some /\ enc.m_val.some
    /\ Cardinality(MarkerParts(1)) = 2
    /\ Contains(enc.bars[1], "[V:1][Q:1/4=120][M:4/4]")

(***************************************************************************)
(* C7                                                                      *)
(***************************************************************************)

\* the voices with clef perc and a recorded K:none override
PercOverridden ==
    {v \in DOMAIN enc.vmeta : enc.vmeta[v].clef = "perc" /\ has_perc(enc.percussive_inline, v, "K")}

\* the indices of the marker parts of the first body line, in order
AllMarkerParts == Sorted({i \in 1..Len(enc.parts) : V_TAGGED_SEG_RE(enc.parts[i], 1).ok})

IsK(tag) == StartsWith(tag, "[K:")

\* C7: every marker, in the first body line, of a voice with clef perc and a
\* recorded K:none override is followed in the output by [K:none], whatever
\* default key the header gave, and no tag carrying the default key is injected
\* at that marker
C7_PercussionOverride ==
    (pc = "encoded" /\ Len(enc.body) > 0) =>
        LET out == MarkersOf(enc.bars[1])
            ps == AllMarkerParts
        IN /\ Len(out) = Len(ps)
           /\ \A k \in 1..Len(ps) :
                 LET vid == V_TAGGED_SEG_RE(enc.parts[ps[k]], 1).vid
                     inj == enc.injects[ps[k]]
                 IN vid \in PercOverridden =>
                       /\ out[k].vid = vid
                       /\ SelectSeq(inj, IsK) = <<"[K:none]">>
                       /\ StartsWithAt(enc.bars[1], RemoveSpace(Join(inj, "")), out[k].end)
                       /\ StartsWithAt(enc.bars[1], "[K:none]", out[k].end)
                          \/ (vid = 1 /\ IsQM(Head(inj)))

\* a perc voice with a recorded override and a default key C in the header, and
\* a marker of that voice in the first body line
C7_Witness ==
    /\ pc = "encoded"
    /\ enc.k_val = Some("C")
    /\ \E v \in PercOverridden : MarkerParts(v) # {}
    /\ Contains(enc.bars[1], "[V:3][K:none]")

(***************************************************************************)
(* C8                                                                      *)
(***************************************************************************)

\* the positions of the inline tempo tags of a line
QTagsOf(line) == {i \in 1..Len(line) : ANY_Q_INLINE_RE(line, i).ok}

QTagText(line, i) == SubSeq(line, i, ANY_Q_INLINE_RE(line, i).end - 1)

\* the markers of a line that end right at position i
MarkersBefore(line, i) ==
    {k \in 1..Len(MarkersOf(line)) : MarkersOf(line)[k].end = i}

\* the markers of a line with nothing but whitespace between them and position i
MarkersNear(line, i) ==
    {k \in 1..Len(MarkersOf(line)) :
        MarkersOf(line)[k].end <= i /\ Strip(SubSeq(line, MarkersOf(line)[k].end, i - 1)) = ""}

\* the texts of the tempo tags of a line that directly follow a marker
KeptTexts(line) == {QTagText(line, i) : i \in {j \in QTagsOf(line) : MarkersNear(line, j) # {}}}

\* C8: in every body line of the encode output every inline [Q:...] tag is
\* immediately preceded by a voice marker; a [Q:...] tag of the input that is not
\* immediately preceded by a voice marker is absent from the output, and one
\* that is immediately preceded by a voice marker is kept with the same content
C8_StrayTempoTags ==
    pc = "encoded" =>
        \A k \in 1..Len(enc.body) :
            LET in == enc.body[k]
                out == enc.bars[k]
            IN /\ \A i \in QTagsOf(out) : MarkersBefore(out, i) # {}
               /\ \A i \in QTagsOf(in) :
                     (/\ MarkersNear(in, i) = {}
                      /\ QTagText(in, i) \notin KeptTexts(in)
                      /\ enc.q_val # Some(SubSeq(QTagText(in, i), 4, Len(QTagText(in, i)) - 1)))
                     => ~Contains(out, RemoveSpace(QTagText(in, i)))
               /\ \A i \in QTagsOf(in) : \A m \in MarkersBefore(in, i) :
                     Contains(out, RemoveSpace(SubSeq(in, MarkersOf(in)[m].pos, i - 1)
                                               \o QTagText(in, i)))

(***************************************************************************)
(* C2                                                                      *)
(***************************************************************************)

\* the voice ids written in a payload: its maximal runs of digits
IdsIn(payload) ==
    {DigitsToNat(SubSeq(payload, i, RunEnd(payload, i, Digits) - 1)) :
        i \in {j \in 1..Len(payload) : Ch(payload, j) \in Digits /\ Ch(payload, j - 1) \notin Digits}}

\* C2: for every payload (also with unclosed, mismatched or stray brackets and
\* repeated ids) the keys of the returned map are exactly the voice ids that
\* appear in the payload, each with one descriptor
C2_GroupMapTotality ==
    pc = "merged" => DOMAIN walk.group_map = IdsIn(input)

(***************************************************************************)
(* C4                                                                      *)
(***************************************************************************)

Openers == {"(", "{"}

Closers == {")", "}"}

CloserOf(t) == IF t = "(" THEN ")" ELSE "}"

\* GroupEnd(toks, p): the position of the closer of the well-formed group
\* opened at p, 0 when the group is not well formed; ScanGroup walks its inside
RECURSIVE GroupEnd(_, _), ScanGroup(_, _, _)
GroupEnd(toks, p) ==
    IF p > Len(toks) \/ toks[p] \notin Openers THEN 0 ELSE ScanGroup(toks, p, p + 1)

ScanGroup(toks, p, j) ==
    IF j > Len(toks) THEN 0
    ELSE IF toks[j] \in Openers
         THEN (IF GroupEnd(toks, j) = 0 THEN 0 ELSE ScanGroup(toks, p, GroupEnd(toks, j) + 1))
    ELSE IF toks[j] \in Closers THEN (IF toks[j] = CloserOf(toks[p]) THEN j ELSE 0)
    ELSE ScanGroup(toks, p, j + 1)

\* the canonical text of the well-formed group from p to q: its members and
\* sub-groups joined by bars
RECURSIVE Canonical(_, _, _), CanonicalElems(_, _, _)
Canonical(toks, p, q) == toks[p] \o Join(CanonicalElems(toks, p + 1, q), "|") \o toks[q]

CanonicalElems(toks, j, q) ==
    IF j >= q THEN <<>>
    ELSE IF toks[j] \in Openers
         THEN <<Canonical(toks, j, GroupEnd(toks, j))>> \o CanonicalElems(toks, GroupEnd(toks, j) + 1, q)
    ELSE IF toks[j] = "|" THEN CanonicalElems(toks, j + 1, q)
    ELSE <<IntToStr(DigitsToNat(toks[j]))>> \o CanonicalElems(toks, j + 1, q)

\* the positions where the id n is written
PlacesOf(toks, n) == {k \in 1..Len(toks) : IsDigits(toks[k]) /\ DigitsToNat(toks[k]) = n}

\* the well-formed groups of kind opener that enclose position k, as <<p, q>>
GroupsAround(toks, k, opener) ==
    {pq \in (1..Len(toks)) \X (1..Len(toks)) :
        pq[1] < k /\ k < pq[2] /\ toks[pq[1]] = opener /\ GroupEnd(toks, pq[1]) = pq[2]}

\* the well-formed brace groups that enclose a parenthesis group around position k
BracesAroundParen(toks, k) ==
    {br \in GroupsAround(toks, k, "{") :
        \E pq \in GroupsAround(toks, k, "(") : br[1] < pq[1] /\ pq[2] < br[2]}

\* the ids that lie in a parenthesis group nested in an enclosing brace group
NestedIds(toks) ==
    {n \in IdsIn(Join(toks, " ")) : \E k \in PlacesOf(toks, n) : BracesAroundParen(toks, k) # {}}

\* the canonical texts of the brace groups that enclose a parenthesis group
\* around some place where n is written
EnclosingBraceTexts(toks, n) ==
    {Canonical(toks, br[1], br[2]) :
        br \in UNION {BracesAroundParen(toks, k) : k \in PlacesOf(toks, n)}}

\* C4 as stated: every id that lies in a parenthesis group nested in an
\* enclosing brace group is mapped to the descriptor of that brace group, never
\* to the parenthesis descriptor
C4_BracePriority ==
    pc = "merged" =>
        \A n \in NestedIds(walk.tokens) :
            /\ n \in DOMAIN walk.group_map
            /\ walk.group_map[n] \in EnclosingBraceTexts(walk.tokens, n)

\* g is the text of a brace group that has n among its ids
IsBraceTextWith(g, n) == Ch(g, 1) = "{" /\ Ch(g, Len(g)) = "}" /\ n \in IdsIn(g)

\* the canonical text of the innermost well-formed brace group around position k
InnermostBraceText(toks, k) ==
    LET around == GroupsAround(toks, k, "{")
        p == Max({br[1] : br \in around})
    IN Canonical(toks, p, GroupEnd(toks, p))

\* C4 amended: every id that lies in a parenthesis group nested in an enclosing
\* brace group is mapped to the descriptor of a brace group that contains the id,
\* never to a parenthesis descriptor; an id written once is mapped to the
\* descriptor of the innermost brace group around it
C4_BracePriorityInnermost ==
    pc = "merged" =>
        \A n \in NestedIds(walk.tokens) :
            /\ n \in DOMAIN walk.group_map
            /\ IsBraceTextWith(walk.group_map[n], n)
            /\ \A k \in PlacesOf(walk.tokens, n) :
                  PlacesOf(walk.tokens, n) = {k} =>
                      walk.group_map[n] = InnermostBraceText(walk.tokens, k)

\* the directive {(1|2)|3} walked to its end: 1 is in the parenthesis map as
\* (1|2) and in the returned map as {(1|2)|3}
C4_Witness ==
    /\ pc = "merged"
    /\ 1 \in NestedIds(walk.tokens)
    /\ walk.paren_map[1] = "(1|2)"
    /\ walk.group_map[1] = "{(1|2)|3}"

(***************************************************************************)
(* C5                                                                      *)
(***************************************************************************)

\* the line starts, after stripping, with one letter and a colon, or with %%
HeaderShaped(line) ==
    LET s == Strip(line)
    IN \/ Ch(s, 1) \in Alpha /\ Ch(s, 2) = ":"
       \/ SubSeq(s, 1, Min({2, Len(s)})) = "%%"

\* C5: the header is exactly the longest prefix of header-shaped lines and the
\* body is every remaining line; a header-shaped line after the first body line
\* is body; header followed by body is the input, in order, nothing lost or
\* duplicated
C5_LongestHeaderPrefix ==
    pc = "split" =>
        LET n == Len(hsplit.header)
        IN /\ hsplit.header \o hsplit.body = input
           /\ \A k \in 1..n : HeaderShaped(input[k])
           /\ n < Len(input) => ~HeaderShaped(input[n + 1])

\* a split with a non-empty header and a header-shaped line in the body
C5_Witness ==
    /\ pc = "split"
    /\ hsplit.header # <<>>
    /\ \E k \in 2..Len(hsplit.body) : HeaderShaped(hsplit.body[k])

(***************************************************************************)
(* C9                                                                      *)
(***************************************************************************)

\* C9: applying the broadcast twice leaves the voice metadata equal to the
\* result of applying it once
C9_BroadcastIdempotent ==
    bc.calls >= 2 => bc.vmeta = bc.once

\* two calls made on a map that the first call changed: a voice without short
\* name shares its group with a named voice
C9_Witness ==
    /\ bc.calls = 2
    /\ bc.once # input.vmeta
    /\ \E v \in DOMAIN input.vmeta : Strip(input.vmeta[v].snm) = "" /\ bc.vmeta[v].snm # ""

(***************************************************************************)
(* C11: end-to-end composition                                             *)
(***************************************************************************)

\* the compact voice line the composition is to give voice v of document c
C11_HeaderLine(c, v) ==
    "V:" \o IntToStr(v) \o " " \o (IF v = Min(c.ids) THEN "treb" ELSE "bass") \o " 0 "
    \o RemoveSpace(c.snm) \o " (" \o Join(Map(Sorted(c.ids), IntToStr), "|") \o ")"

\* the j-th segment of the first body line: the marker, the tempo and meter
\* tags at voice 1 only, the key tag, then the text of the segment
C11_Segment(c, j) ==
    "[V:" \o IntToStr(c.order[j]) \o "]"
    \o (IF c.order[j] = 1 THEN "[Q:1/4=100][M:2/4]" ELSE "")
    \o "[K:" \o c.k \o "]" \o RemoveSpace(compose_text(c, j))

\* C11: for a document whose voices all lie in one parenthesis group, only the
\* lowest voice declaring a short name, with tempo, meter and key in the header
\* and one marker per voice in the first body line, encode gives one compact line
\* per voice carrying that short name (its spaces removed, as the header renders
\* it) and the group descriptor, and a first body line where [V:1] is followed by
\* the tempo, meter and key tags in that order and every other marker by the key
\* tag only, the text of each segment staying in its place (without white space,
\* which encode removes from every body line).
C11_EndToEndComposition ==
    pc = "encoded" =>
        /\ enc.compact_header =
               [j \in 1..Cardinality(input.ids) |-> C11_HeaderLine(input, Sorted(input.ids)[j])]
        /\ enc.bars = <<Join([j \in 1..Len(input.order) |-> C11_Segment(input, j)], "")>>
        /\ enc.text = Join(enc.compact_header \o enc.bars, "\n")

\* the example of the specification, encoded
C11_Witness ==
    /\ pc = "encoded"
    /\ input.ids = {1, 2} /\ input.snm = "Fl." /\ input.k = "C" /\ input.order = <<1, 2>>
    /\ enc.text = "V:1 treb 0 Fl. (1|2)\nV:2 bass 0 Fl. (1|2)\n"
                  \o "[V:1][Q:1/4=100][M:2/4][K:C]abc|[V:2][K:C]de"

(***************************************************************************)
(* C12: probe order on decode                                              *)
(***************************************************************************)

\* the places <<line, position>> of the body where a tag [X:...] starts
TagPlaces(body, letter) ==
    UNION {{<<n, i>> : i \in {j \in 1..Len(body[n]) : TagRe(body[n], j, letter).ok}} :
              n \in 1..Len(body)}

\* the value of the tag at a place: the text after the colon, stripped
TagValue(body, pl) ==
    Strip(SubSeq(body[pl[1]], pl[2] + 3, TagRe(body[pl[1]], pl[2], "K").end - 2))

Before(a, b) == a[1] < b[1] \/ (a[1] = b[1] /\ a[2] <= b[2])

\* the first of a set of places in document order
FirstPlace(places) == CHOOSE a \in places : \A b \in places : Before(a, b)

\* the text of the tag at a place, without its brackets
TagText(body, pl, letter) ==
    SubSeq(body[pl[1]], pl[2] + 1, TagRe(body[pl[1]], pl[2], letter).end - 2)

RealKeyPlaces(body) == {pl \in TagPlaces(body, "K") : Lower(TagValue(body, pl)) # "none"}

\* the header lines of one field letter
FieldLines(head, letter) == SelectSeq(head, LAMBDA ln : StartsWith(ln, letter \o ":"))

FirstTagLine(body, letter) ==
    IF TagPlaces(body, letter) = {} THEN <<>>
    ELSE <<TagText(body, FirstPlace(TagPlaces(body, letter)), letter)>>

FirstRealKeyLine(body) ==
    IF RealKeyPlaces(body) = {} THEN <<>>
    ELSE <<"K:" \o TagValue(body, FirstPlace(RealKeyPlaces(body)))>>

\* C12: the tempo, meter and key lines of the reconstructed header are the first
\* inline [Q:...] tag, the first inline [M:...] tag and the first inline [K:...]
\* tag whose value is not none, in document order over all lines and all tags of
\* a line; a [K:none] before a real key tag, also in the same line, does not
\* hide it.
C12_ProbeOrder ==
    (pc = "restored" /\ Len(dec.vdefs) > 0) =>
        /\ FieldLines(dec.head_out, "Q") = FirstTagLine(dec.body, "Q")
        /\ FieldLines(dec.head_out, "M") = FirstTagLine(dec.body, "M")
        /\ FieldLines(dec.head_out, "K") = FirstRealKeyLine(dec.body)

(***************************************************************************)
(* C13: decode leaves the body unchanged                                   *)
(***************************************************************************)

\* the lines from the first one that is not header-shaped on
RECURSIVE FromFirstBodyLine(_)
FromFirstBodyLine(lines) ==
    IF Len(lines) = 0 \/ ~HeaderShaped(Head(lines)) THEN lines
    ELSE FromFirstBodyLine(Tail(lines))

\* the body lines of a document: its non-blank lines after the header
BodyLinesOf(text) == FromFirstBodyLine(SelectSeq(SplitOn(text, "\n"), NonBlank))

\* the lines of the restored text after the reconstructed header
RestoredBody ==
    SubSeq(SplitOn(dec.text, "\n"), Len(dec.head_out) + 1, Len(SplitOn(dec.text, "\n")) - 1)

\* C13: for every input in which at least one voice line parses, the lines of
\* the output of restore_text_simple after the reconstructed header are exactly
\* the body lines of the input, in the same order and with the same text.
C13_BodyUnchanged ==
    (pc = "restored" /\ Len(dec.vdefs) > 0) => RestoredBody = BodyLinesOf(input)

(***************************************************************************)
(* C14: the representative naming rule                                     *)
(***************************************************************************)

\* the voice declarations of the reconstructed header, one per parsed voice
VLinesOut == SubSeq(dec.head_out, Len(dec.head_out) - Len(dec.vdefs) + 1, Len(dec.head_out))

HasNm(line) == Contains(line, " nm=\"")

HasSnm(line) == Contains(line, " snm=\"")

\* the voice ids a group descriptor names
MembersOf(g) == Range(group_members(g))

\* the voice ids that the descriptor of some parsed voice line names
ListedIds == UNION {MembersOf(dec.vdefs[k].group) : k \in 1..Len(dec.vdefs)}

LowestOfOwnGroup(v) == MembersOf(v.group) # {} /\ v.vid = Min(MembersOf(v.group))

LowestOfSomeGroup(v) ==
    \E k \in 1..Len(dec.vdefs) :
        MembersOf(dec.vdefs[k].group) # {} /\ v.vid = Min(MembersOf(dec.vdefs[k].group))

\* C14 as stated: a voice declaration carries nm= and snm= only if the voice is
\* the lowest-numbered member of its own group or belongs to no group; every
\* other member of a group carries neither field, also when a voice id is listed
\* in more than one group.
C14_OwnGroupRepresentative ==
    (pc = "restored" /\ Len(dec.vdefs) > 0) =>
        \A k \in 1..Len(dec.vdefs) :
            (HasNm(VLinesOut[k]) \/ HasSnm(VLinesOut[k])) =>
                (LowestOfOwnGroup(dec.vdefs[k]) \/ dec.vdefs[k].vid \notin ListedIds)

EveryGroupNamesAVoice ==
    \A k \in 1..Len(dec.vdefs) : dec.vdefs[k].group # "" => MembersOf(dec.vdefs[k].group) # {}

\* C14, amended: when every group descriptor of the parsed voice lines names at
\* least one voice id, a voice declaration carries both nm= and snm= if the voice
\* is the lowest-numbered member of the descriptor of some parsed voice line, or
\* if no such descriptor lists it, and carries neither field otherwise.
C14_SomeGroupRepresentative ==
    (pc = "restored" /\ Len(dec.vdefs) > 0 /\ EveryGroupNamesAVoice) =>
        \A k \in 1..Len(dec.vdefs) :
            IF LowestOfSomeGroup(dec.vdefs[k]) \/ dec.vdefs[k].vid \notin ListedIds
            THEN HasNm(VLinesOut[k]) /\ HasSnm(VLinesOut[k])
            ELSE ~HasNm(VLinesOut[k]) /\ ~HasSnm(VLinesOut[k])

\* voice 2 is a higher member of its own group (1|2) and the lowest of (2|3):
\* its declaration carries the name; voice 3 carries none
C14_Witness ==
    /\ pc = "restored"
    /\ dec.head = <<"V:2 bass -12 Fl. (1|2)", "V:3 perc 0 Dr. (2|3)">>
    /\ VLinesOut = <<"V:2 bass transpose=-12 nm=\"Fl.\" snm=\"Fl.\"", "V:3 perc stafflines=1">>

(***************************************************************************)
(* C15: the order of the layout directive                                  *)
(***************************************************************************)

\* what makes two descriptors the same group: the kind of bracket and the
\* voice ids named, whatever their order
GroupIdentity(g) == <<StartsWith(g, "("), SortedList(group_members(g))>>

\* the parsed voice lines whose group no earlier parsed voice line carries
FirstAppearances ==
    {k \in 1..Len(dec.vdefs) :
        /\ dec.vdefs[k].group # ""
        /\ \A j \in 1..(k - 1) :
               dec.vdefs[j].group = ""
               \/ GroupIdentity(dec.vdefs[j].group) # GroupIdentity(dec.vdefs[k].group)}

NormalizedToken(g) == IF StartsWith(g, "(") THEN norm_paren_token(g) ELSE norm_brace_token(g)

GroupTokensInOrder ==
    [j \in 1..Cardinality(FirstAppearances) |->
        NormalizedToken(dec.vdefs[Sorted(FirstAppearances)[j]].group)]

\* the ids of the parsed voice lines that no descriptor lists, in the ascending
\* order of the voice lines
UngroupedInOrder ==
    [j \in 1..Cardinality({k \in 1..Len(dec.vdefs) : dec.vdefs[k].vid \notin ListedIds}) |->
        IntToStr(dec.vdefs[Sorted({k \in 1..Len(dec.vdefs) : dec.vdefs[k].vid \notin ListedIds})[j]].vid)]

\* C15: the %%score line holds one normalized token per distinct group, in the
\* order in which the groups first appear among the parsed voice lines taken in
\* ascending voice id, each distinct group once, followed by every voice id that
\* belongs to no group, ascending, as bare numbers.
C15_LayoutDirectiveOrder ==
    (pc = "restored" /\ Len(dec.vdefs) > 0) =>
        /\ \A k \in 1..(Len(dec.vdefs) - 1) : dec.vdefs[k].vid <= dec.vdefs[k + 1].vid
        /\ dec.head_out[1] = "%%score " \o Join(GroupTokensInOrder \o UngroupedInOrder, " ")

\* two voice lines carry the same group: its token is written once, and no
\* voice is left to be written as a bare number
C15_Witness ==
    /\ pc = "restored"
    /\ Len(dec.vdefs) = 2
    /\ dec.vdefs[1].vid = 1 /\ dec.vdefs[2].vid = 2
    /\ dec.vdefs[1].group = "(1|2)" /\ dec.vdefs[2].group = "(1|2)"
    /\ dec.head_out[1] = "%%score ( 1 2 )"

(***************************************************************************)
(* C16: the order of the reconstructed header                              *)
(***************************************************************************)

\* what the probe found in the body, as a list of lines
ProbedLine(found) == IF found.some THEN <<found.v>> ELSE <<>>

ProbedFields ==
    ProbedLine(probe_qmk_from_body(dec.body).q) \o ProbedLine(probe_qmk_from_body(dec.body).m)
    \o ProbedLine(probe_qmk_from_body(dec.body).k)

\* the fields of a voice declaration ahead of its name fields
DeclarationStem(v) ==
    "V:" \o IntToStr(v.vid) \o " " \o v.clef
    \o (IF v.clef = "perc" THEN " stafflines=1" ELSE "")
    \o (IF v.transpose # 0 THEN " transpose=" \o IntToStr(v.transpose) ELSE "")

\* the line is the stem, alone or followed by the name fields only
IsDeclarationOf(line, v) ==
    /\ StartsWith(line, DeclarationStem(v))
    /\ \/ line = DeclarationStem(v)
       \/ StartsWithAt(line, " nm=\"", Len(DeclarationStem(v)) + 1)
    /\ Contains(line, " stafflines=1") <=> v.clef = "perc"
    /\ Contains(line, " transpose=") <=> v.transpose # 0

\* C16: whenever at least one voice line parses, the header produced by decode
\* is, in this order, the %%score line, the line L:1/8, the tempo, meter and key
\* lines (each present only if the probe found it), then one V: line per parsed
\* voice in ascending id; a V: line has stafflines=1 exactly when its clef is
\* perc and a transpose= field exactly when the transpose is not zero.
C16_ReconstructedHeaderOrder ==
    (pc = "restored" /\ Len(dec.vdefs) > 0) =>
        /\ Len(dec.head_out) = 2 + Len(ProbedFields) + Len(dec.vdefs)
        /\ StartsWith(dec.head_out[1], "%%score ")
        /\ dec.head_out[2] = "L:1/8"
        /\ SubSeq(dec.head_out, 3, 2 + Len(ProbedFields)) = ProbedFields
        /\ \A k \in 1..Len(dec.vdefs) :
               /\ IsDeclarationOf(dec.head_out[2 + Len(ProbedFields) + k], dec.vdefs[k])
               /\ k > 1 => dec.vdefs[k - 1].vid <= dec.vdefs[k].vid
        /\ dec.text = Join(dec.head_out \o dec.body, "\n") \o "\n"

\* all three fields found, a transposed voice and a percussion voice, the voice
\* lines given in descending id
C16_Witness ==
    /\ pc = "restored"
    /\ dec.head = <<"V:3 perc 0 Dr. (2|3)", "V:2 bass -12 Fl. (1|2)">>
    /\ dec.head_out = <<"%%score ( 1 2 ) ( 2 3 )", "L:1/8", "Q:1/4=90", "M:3/4", "K:C",
                        "V:2 bass transpose=-12 nm=\"Fl.\" snm=\"Fl.\"",
                        "V:3 perc stafflines=1">>

(***************************************************************************)
(* C17: encode is total                                                    *)
(***************************************************************************)

\* C17: for every input text, also with malformed layout directives or voice
\* lines, without voice lines, without body lines, or empty, encode returns a
\* result and never fails.
C17_EncodeTotal == pc # "raised"

(***************************************************************************)
(* C18: per-file failure isolation in the batch drivers                    *)
(***************************************************************************)

\* the loop has gone past the file
Passed(file) ==
    \/ file[1] < batch.d
    \/ file[1] = batch.d /\ pc = "files" /\ file[2] < batch.f

\* the files in the order of the loops
InLoopOrder(files) ==
    \A j \in 1..Len(files), k \in 1..Len(files) :
        j < k => (files[j][1] < files[k][1]
                  \/ (files[j][1] = files[k][1] /\ files[j][2] < files[k][2]))

\* no failure leaves the loop; every file the loop has passed was attempted
\* once and no other file was attempted; the failing files passed are the ones
\* reported, the others the ones written
IsolationSoFar ==
    /\ pc \in {"dirs", "files", "done"}
    /\ \A file \in FilesOf(input) : batch.attempts[file] = IF Passed(file) THEN 1 ELSE 0
    /\ Range(batch.errors) = {file \in FilesOf(input) : Passed(file) /\ input[file[1]].files[file[2]]}
    /\ Range(batch.written) = {file \in FilesOf(input) : Passed(file) /\ ~input[file[1]].files[file[2]]}
    /\ InLoopOrder(batch.errors) /\ InLoopOrder(batch.written)
    /\ pc = "done" => \A file \in FilesOf(input) : batch.attempts[file] = 1

\* C18: in the main loops of clean.py and mess.py, when processing one file
\* fails, the failure is caught and reported and every remaining file is still
\* processed; for every file list and every subset of failing files, each file
\* is attempted exactly once and the loop ends after the last file.
C18_FailureIsolation == [](IsolationSoFar) /\ <>(pc = "done")

\* a failing file followed by a file that is processed, both attempted once
C18_Witness ==
    /\ pc = "done"
    /\ Len(input) = 1 /\ input[1].files = <<TRUE, FALSE>>
    /\ batch.errors = <<<<1, 1>>>> /\ batch.written = <<<<1, 2>>>>
    /\ batch.attempts[<<1, 1>>] = 1 /\ batch.attempts[<<1, 2>>] = 1

(***************************************************************************)
(* C19: the parse of the voice lines encode emits                          *)
(***************************************************************************)

\* the voices encode rendered, ascending
RenderedIds == Sorted(DOMAIN enc.vmeta)

\* the descriptor encode rendered for a voice
RenderedGroup(vid) ==
    IF vid \in DOMAIN enc.group_map THEN enc.group_map[vid] ELSE "(" \o IntToStr(vid) \o ")"

\* the short name encode rendered for a voice, "" when it rendered none
RenderedShortName(vid) == RemoveSpace(enc.vmeta[vid].snm)

\* C19: for every compact voice line that encode emits, also without a clef
\* field or without a short-name field, parse_vdefs_simple recovers the voice
\* id, the transpose value and the group descriptor that encode rendered and
\* takes as name only the short-name field: a group descriptor is never read as
\* the name and a transpose value is never read as the clef.
C19_LosslessVoiceLines ==
    pc = "restored" =>
        /\ Len(dec.vdefs) = Len(RenderedIds)
        /\ \A k \in 1..Len(dec.vdefs) :
               /\ dec.vdefs[k].vid = RenderedIds[k]
               /\ dec.vdefs[k].transpose = enc.vmeta[RenderedIds[k]].transpose
               /\ dec.vdefs[k].group = RenderedGroup(RenderedIds[k])
               /\ dec.vdefs[k].name = RenderedShortName(RenderedIds[k])
               /\ dec.vdefs[k].name # RenderedGroup(RenderedIds[k])
               /\ dec.vdefs[k].clef # IntToStr(enc.vmeta[RenderedIds[k]].transpose)

(***************************************************************************)
(* C20: a marker that already has an inline key tag                        *)
(***************************************************************************)

\* the marker parts of the first body line whose next part begins with an
\* inline key tag
KeyedMarkerParts ==
    {i \in 1..Len(enc.parts) :
        /\ V_TAGGED_SEG_RE(enc.parts[i], 1).ok
        /\ i + 1 <= Len(enc.parts)
        /\ StartsWith(enc.parts[i + 1], "[K:")}

\* the key tag that begins part i: the text up to its closing bracket
KeyTagOf(i) ==
    LET p == enc.parts[i]
        ends == {j \in 1..Len(p) : SubSeq(p, j, j) = "]"}
    IN IF ends = {} THEN p ELSE SubSeq(p, 1, Min(ends))

\* position of part i among the marker parts
MarkerRank(i) == Cardinality({j \in 1..i : V_TAGGED_SEG_RE(enc.parts[j], 1).ok})

\* what follows the marker of part i in the output: the tags injected there,
\* then the key tag the input had
InjectedThenKey(i) ==
    StartsWithAt(enc.bars[1],
                 RemoveSpace(Join(enc.injects[i], "") \o KeyTagOf(i + 1)),
                 MarkersOf(enc.bars[1])[MarkerRank(i)].end)

\* C20: at every voice marker of the first body line whose segment already
\* carries an inline key tag immediately after the marker, encode injects no
\* key tag, whatever default key was extracted and whatever overrides are
\* recorded for that voice.
C20_InlineKeySuppresses ==
    (pc = "encoded" /\ Len(enc.body) > 0) =>
        \A i \in KeyedMarkerParts :
            /\ SelectSeq(enc.injects[i], IsK) = <<>>
            /\ InjectedThenKey(i)

\* C20, as the code has it: at such a marker encode injects no key tag when the
\* voice has no recorded K:none override, whatever default key was extracted,
\* and injects exactly [K:none], in front of the tag that is there, when the
\* voice has one.
C20_InlineKeySuppressesDefault ==
    (pc = "encoded" /\ Len(enc.body) > 0) =>
        \A i \in KeyedMarkerParts :
            LET vid == V_TAGGED_SEG_RE(enc.parts[i], 1).vid
            IN /\ SelectSeq(enc.injects[i], IsK) =
                      IF has_perc(enc.percussive_inline, vid, "K") THEN <<"[K:none]">> ELSE <<>>
               /\ InjectedThenKey(i)

\* a default key was extracted, and the first body line has a marker of a voice
\* without an override that is followed at once by [K:G]
C20_Witness ==
    /\ pc = "encoded"
    /\ Len(enc.body) > 0
    /\ enc.k_val = Some("C")
    /\ \E i \in KeyedMarkerParts :
           /\ ~has_perc(enc.percussive_inline, V_TAGGED_SEG_RE(enc.parts[i], 1).vid, "K")
           /\ KeyTagOf(i + 1) = "[K:G]"
           /\ enc.injects[i] # <<>>

(***************************************************************************)
(* C21: the default key at the markers                                     *)
(***************************************************************************)

\* the marker parts of the first body line whose voice has no K:none override
\* and whose next part does not begin with an inline key tag
UnkeyedMarkerParts ==
    {i \in 1..Len(enc.parts) :
        /\ V_TAGGED_SEG_RE(enc.parts[i], 1).ok
        /\ ~has_perc(enc.percussive_inline, V_TAGGED_SEG_RE(enc.parts[i], 1).vid, "K")
        /\ i \notin KeyedMarkerParts}

\* the tag of the default key
DefaultKeyTag == "[K:" \o enc.k_val.v \o "]"

\* C21: when a default key was extracted, at every voice marker of the first
\* body line whose voice has no K:none override and whose segment has no inline
\* key tag immediately after the marker (a key tag later inside the segment
\* does not count), encode injects the default key tag directly after the
\* marker, behind the tempo and meter tags injected there.
C21_DefaultKeyAtEveryMarker ==
    (pc = "encoded" /\ Len(enc.body) > 0 /\ enc.k_val.some) =>
        \A i \in UnkeyedMarkerParts :
            LET inj == enc.injects[i]
                qm == SelectSeq(inj, IsQM)
            IN /\ Len(inj) > Len(qm)
               /\ SubSeq(inj, 1, Len(qm) + 1) = qm \o <<DefaultKeyTag>>
               /\ StartsWithAt(enc.bars[1], RemoveSpace(Join(qm, "") \o DefaultKeyTag),
                               MarkersOf(enc.bars[1])[MarkerRank(i)].end)

(***************************************************************************)
(* C22: what a closing group records                                       *)
(***************************************************************************)

\* the innermost open accumulator
TopNode == walk.stack[Len(walk.stack)]

\* the text a popped accumulator is rendered as
RenderingOf(node) == node.type \o Join(node.elems, "|") \o CloserOf(node.type)

\* a closer is met while a group nested in another one is open
ClosesNested == WalkClose /\ Len(walk.stack) > 1

\* a closer is met while some group is open
ClosesGroup == WalkClose /\ Len(walk.stack) > 0

\* after the step, map `after` is map `before` with the rendering set for
\* every member of the node that had no entry
TookMembers(before, after, node) ==
    /\ DOMAIN after = DOMAIN before \cup node.nums
    /\ \A n \in DOMAIN after :
           after[n] = IF n \in DOMAIN before THEN before[n] ELSE RenderingOf(node)

\* C22: an id is written into the parenthesis map or the brace map only when a
\* group closes while no other accumulator is open; closing a nested group
\* appends its rendering and its member ids to the parent and records nothing.
C22_OnlyTopLevelRecorded ==
    [][ClosesNested =>
          /\ walk'.paren_map = walk.paren_map
          /\ walk'.brace_map = walk.brace_map
          /\ walk'.stack[Len(walk.stack) - 1].elems
                = Append(walk.stack[Len(walk.stack) - 1].elems, RenderingOf(TopNode))
          /\ walk'.stack[Len(walk.stack) - 1].nums
                = walk.stack[Len(walk.stack) - 1].nums \cup TopNode.nums]_vars

\* C22, as the code has it: every group that closes, nested or not, is
\* recorded: each of its member ids that has no entry yet in the map of the
\* group's opener type gets the group's rendering there, entries that exist stay
\* and the other map is untouched; a nested group is, besides, appended with
\* its member ids to its parent.
C22_EveryClosedGroupRecorded ==
    [][ClosesGroup =>
          /\ IF TopNode.type = "("
             THEN /\ TookMembers(walk.paren_map, walk'.paren_map, TopNode)
                  /\ walk'.brace_map = walk.brace_map
             ELSE /\ TookMembers(walk.brace_map, walk'.brace_map, TopNode)
                  /\ walk'.paren_map = walk.paren_map
          /\ Len(walk'.stack) = Len(walk.stack) - 1
          /\ Len(walk.stack) > 1 =>
                /\ walk'.stack[Len(walk.stack) - 1].elems
                      = Append(walk.stack[Len(walk.stack) - 1].elems, RenderingOf(TopNode))
                /\ walk'.stack[Len(walk.stack) - 1].nums
                      = walk.stack[Len(walk.stack) - 1].nums \cup TopNode.nums]_vars

\* the nested group (1|2) has just closed inside an open brace group: it is in
\* the parent's elements and ids 1 and 2 are in the parenthesis map
C22_Witness ==
    /\ pc = "walking"
    /\ input = "{(1|2)|3}"
    /\ Len(walk.stack) = 1
    /\ walk.stack[1].type = "{"
    /\ walk.stack[1].elems = <<"(1|2)">>
    /\ walk.stack[1].nums = {1, 2}
    /\ DOMAIN walk.paren_map = {1, 2}
    /\ walk.paren_map[1] = "(1|2)"

(***************************************************************************)
(* C23: the header/body split of the restoration                           *)
(***************************************************************************)

\* the non-blank lines of the input of the restoration
InputLines == SelectSeq(SplitOn(input, "\n"), NonBlank)

\* C23: in split_head_body, once a line has been classified as body every later
\* line is classified as body, also a line that starts with a letter and a
\* colon: the header is a prefix of the input lines, the body is the rest, and
\* the header never resumes.
C23_HeaderNeverResumes ==
    pc = "restored" =>
        /\ Len(dec.head) + Len(dec.body) = Len(InputLines)
        /\ dec.head = SubSeq(InputLines, 1, Len(dec.head))
        /\ dec.body = SubSeq(InputLines, Len(dec.head) + 1, Len(InputLines))

(***************************************************************************)
(* C24: which voice an override line belongs to                            *)
(***************************************************************************)

\* header line j is a V: declaration
IsDeclaration(j) == V_RE(Strip(enc.header[j])).ok

DeclaredVid(j) == DigitsToNat(V_RE(Strip(enc.header[j])).g1)

DeclaredClef(j) == parse_v_payload(Strip(V_RE(Strip(enc.header[j])).g2)).clef

\* header line j is a K:none line
IsNoKeyLine(j) ==
    /\ ~IsDeclaration(j)
    /\ K_RE(Strip(enc.header[j])).some
    /\ Lower(Strip(K_RE(Strip(enc.header[j])).v)) = "none"

\* header line j is a percussion-map line
IsPercMapLine(j) == ~IsDeclaration(j) /\ StartsWith(enc.header[j], "I:percmap")

\* the most recent declaration before line j, 0 when there is none
DeclarationBefore(j) == Max({0} \cup {i \in 1..(j - 1) : IsDeclaration(i)})

\* line j is an override line that follows a declaration of voice v with clef
\* perc, with no other declaration between the two
OverrideOf(j, v) ==
    /\ IsNoKeyLine(j) \/ IsPercMapLine(j)
    /\ DeclarationBefore(j) # 0
    /\ DeclaredVid(DeclarationBefore(j)) = v
    /\ DeclaredClef(DeclarationBefore(j)) = "perc"

OverrideLinesOf(v) == {j \in 1..Len(enc.header) : OverrideOf(j, v)}

\* the percussion-map lines of voice v, in header order
PercMapLinesOf(v) ==
    LET js == Sorted({j \in OverrideLinesOf(v) : IsPercMapLine(j)})
    IN [k \in 1..Len(js) |-> Strip(enc.header[js[k]])]

\* C24: a K:none line or a percussion-map line of the header is recorded as an
\* override of voice v exactly when v is the most recent V: declaration before
\* the line and that declaration has clef perc: other header lines in between
\* do not break the association, a new V: declaration does, and nothing is
\* recorded under a declaration whose clef is not perc.
C24_OverrideTracking ==
    pc = "encoded" =>
        /\ DOMAIN enc.percussive_inline
              = {DeclaredVid(i) : i \in {i \in 1..Len(enc.header) : IsDeclaration(i)
                                                                    /\ OverrideLinesOf(DeclaredVid(i)) # {}}}
        /\ \A v \in DOMAIN enc.percussive_inline :
              /\ enc.percussive_inline[v].I = PercMapLinesOf(v)
              /\ enc.percussive_inline[v].K
                    = [k \in 1..Cardinality({j \in OverrideLinesOf(v) : IsNoKeyLine(j)}) |-> "none"]

\* a percussion voice, an unrelated header line, then its K:none line: the
\* override is recorded for voice 3
C24_Witness ==
    /\ pc = "encoded"
    /\ enc.header = <<"V:3 perc", "M:4/4", "K:none">>
    /\ enc.percussive_inline[3].K = <<"none">>

(***************************************************************************)
(* C25: the result of the name broadcast                                   *)
(***************************************************************************)

\* the descriptor a voice is grouped by
GroupOf(v) == IF v \in DOMAIN enc.group_map THEN enc.group_map[v] ELSE "(" \o IntToStr(v) \o ")"

\* the voices in the group of v
GroupMates(v) == {u \in DOMAIN enc.vmeta_in : GroupOf(u) = GroupOf(v)}

\* those of them that had a short name before the broadcast
NamedMates(v) == {u \in GroupMates(v) : enc.vmeta_in[u].snm # ""}

ClosesMismatched ==
    WalkClose /\ Len(walk.stack) > 0 /\ walk.tokens[walk.i] # CloserOf(TopNode.type)

\* a closer is met while no accumulator is open
ClosesNothing == WalkClose /\ Len(walk.stack) = 0

\* the map that takes the groups of the node's opener type, in walk state w
MapFor(w, node) == IF node.type = "(" THEN w.paren_map ELSE w.brace_map

\* C26: a closer whose type differs from the opener of the innermost open
\* accumulator still pops that accumulator, which is rendered with the brackets
\* of its own opener; a closer met while nothing is open changes neither the
\* stack nor the maps; in both cases the walk goes on with the next token.
C26_MalformedClosers ==
    [][/\ ClosesMismatched =>
             /\ Len(walk'.stack) = Len(walk.stack) - 1
             /\ \A k \in 1..(Len(walk.stack) - 2) : walk'.stack[k] = walk.stack[k]
             /\ Len(walk.stack) > 1 =>
                   walk'.stack[Len(walk.stack) - 1].elems
                      = Append(walk.stack[Len(walk.stack) - 1].elems, RenderingOf(TopNode))
             /\ \A n \in TopNode.nums :
                   /\ n \in DOMAIN MapFor(walk', TopNode)
                   /\ n \notin DOMAIN MapFor(walk, TopNode)
                         => MapFor(walk', TopNode)[n] = RenderingOf(TopNode)
             /\ walk'.i = walk.i + 1
       /\ ClosesNothing =>
             /\ walk'.stack = walk.stack
             /\ walk'.paren_map = walk.paren_map
             /\ walk'.brace_map = walk.brace_map
             /\ walk'.i = walk.i + 1]_vars

\* the brace closer of {(1|2} has popped the parenthesis group: the group is
\* rendered as (1|2) in the brace accumulator, which stays open
C26_Witness ==
    /\ pc = "walking"
    /\ input = "{(1|2}"
    /\ walk.i = 7
    /\ Len(walk.stack) = 1
    /\ walk.stack[1].type = "{"
    /\ walk.stack[1].elems = <<"(1|2)">>
    /\ walk.paren_map[2] = "(1|2)"

(***************************************************************************)
(* C27: the percussion-map tags                                            *)
(***************************************************************************)

IsPercMapTag(tag) == StartsWith(tag, "[I:")

NotPercMapTag(tag) == ~IsPercMapTag(tag)

\* the percussion-map lines of the header recorded for voice v, each in brackets
PercMapTagsOf(v) == [k \in 1..Len(PercMapLinesOf(v)) |-> "[" \o PercMapLinesOf(v)[k] \o "]"]

\* C27: at every voice marker of the first body line whose voice has recorded
\* percussion-map lines, encode appends after the marker, behind the key tag if
\* one is injected, one bracketed inline tag per recorded line, in the order of
\* the lines in the header (in the output without whitespace, as all body
\* text); at markers of voices without recorded lines it appends no such tag.
C27_PercussionMapTags ==
    (pc = "encoded" /\ Len(enc.body) > 0) =>
        \A i \in 1..Len(enc.parts) :
            V_TAGGED_SEG_RE(enc.parts[i], 1).ok =>
                LET vid == V_TAGGED_SEG_RE(enc.parts[i], 1).vid
                    inj == enc.injects[i]
                IN /\ SelectSeq(inj, IsPercMapTag) = PercMapTagsOf(vid)
                   /\ inj = SelectSeq(inj, NotPercMapTag) \o PercMapTagsOf(vid)
                   /\ StartsWithAt(enc.bars[1], RemoveSpace(Join(inj, "")),
                                   MarkersOf(enc.bars[1])[MarkerRank(i)].end)

\* voice 3 has two recorded percussion-map lines and a K:none override, and the
\* first body line has a marker of voice 3: both tags follow the key tag
C27_Witness ==
    /\ pc = "encoded"
    /\ Len(enc.body) > 0
    /\ Len(PercMapLinesOf(3)) = 2
    /\ Contains(enc.bars[1], "[V:3][K:none][I:percmapDdrum38][I:percmapFkick36]")

(***************************************************************************)
(* C28: injection only adds, and only to the first body line               *)
(***************************************************************************)

\* the line with inserts[k] put directly after its k-th marker, from marker k
\* and position pos on
RECURSIVE Spliced(_, _, _, _, _)
Spliced(line, ms, inserts, k, pos) ==
    IF k > Len(ms) THEN SubSeq(line, pos, Len(line))
    ELSE SubSeq(line, pos, ms[k].end - 1) \o inserts[k]
         \o Spliced(line, ms, inserts, k + 1, ms[k].end)

\* what was injected at the k-th marker of the first body line
InsertedAt(k) == Join(enc.injects[AllMarkerParts[k]], "")

IsBracketedTag(tag) == Len(tag) > 2 /\ Ch(tag, 1) = "[" /\ Ch(tag, Len(tag)) = "]"

\* C28: _inject_first_line_tags only inserts tags directly after voice markers:
\* its result is the input line with the inserted tags put after the markers,
\* every marker and all text between markers as they were and in order, so
\* taking the inserted tags out gives the input line back; no other body line
\* gets a tag, and a first line without a marker is returned unchanged.
C28_InjectionAdditive ==
    (pc = "encoded" /\ Len(enc.body) > 0) =>
        LET line == enc.body[1]
            ms == MarkersOf(line)
        IN /\ Len(AllMarkerParts) = Len(ms)
           /\ Join(enc.parts, "") = line
           /\ \A i \in 1..Len(enc.parts) :
                 /\ ~V_TAGGED_SEG_RE(enc.parts[i], 1).ok => enc.injects[i] = <<>>
                 /\ \A t \in 1..Len(enc.injects[i]) : IsBracketedTag(enc.injects[i][t])
           /\ enc.injected[1] = Spliced(line, ms, [k \in 1..Len(ms) |-> InsertedAt(k)], 1, 1)
           /\ Len(ms) = 0 => enc.injected[1] = line
           /\ Tail(enc.injected) = Tail(enc.body)

\* tags were inserted after two markers of a first line that has text between
\* them, and the second body line, which has a marker too, is as it was
C28_Witness ==
    /\ pc = "encoded"
    /\ Len(enc.body) = 2
    /\ enc.body[1] = "[V:3]c[K:G]d|[V:1]e"
    /\ enc.injected[1] = "[V:3][K:none][I:percmap D drum 38][I:percmap F kick 36]c[K:G]d|[V:1][Q:1/4=120][M:4/4][K:C]e"
    /\ enc.injected[2] = enc.body[2]

(***************************************************************************)
(* C29: the K:none line of a percussion voice and the document key         *)
(***************************************************************************)

\* header line j is recorded as the no-key override of a percussion voice
IsOverrideKeyLine(j) == IsNoKeyLine(j) /\ \E v \in DOMAIN enc.vmeta : OverrideOf(j, v)

\* the header lines with a K: field, in order
KeyLines == Sorted({j \in 1..Len(enc.header) : K_RE(Strip(enc.header[j])).some})

\* the tags of [K:none] injected at markers of voices without a no-key override
NoKeyAtOtherVoices ==
    {i \in UnkeyedMarkerParts : \E t \in 1..Len(enc.injects[i]) : enc.injects[i][t] = "[K:none]"}

\* C29: a K:none header line that encode records as the no-key override of a
\* percussion voice is never taken as the document default key, also when it is
\* the first or the only K: line of the header, so it never makes encode inject
\* [K:none] at the marker of a voice that has no such override.
C29_OverrideIsNotDocumentKey ==
    (pc = "encoded" /\ Len(enc.body) > 0) =>
        /\ (enc.k_val.some /\ Len(KeyLines) > 0) => ~IsOverrideKeyLine(KeyLines[1])
        /\ (\A k \in 1..Len(KeyLines) : IsOverrideKeyLine(KeyLines[k])) =>
               /\ ~enc.k_val.some
               /\ NoKeyAtOtherVoices = {}

(***************************************************************************)
(* C30: ABCCleaner.decode                                                  *)
(***************************************************************************)

\* C30: decode returns every text unchanged and rebuilds no header, so decode
\* of what encode returned is what encode returned; a header is rebuilt only by
\* restore_text_simple.
C30_DecodeIsIdentity ==
    /\ pc = "decoded" => dec.text = enc.text
    /\ pc = "decoded_input" => dec.text = input

\* decode has returned an encoded text with compact voice lines as it was,
\* where restore_text_simple rebuilds a header with a layout directive
C30_Witness ==
    /\ pc = "decoded"
    /\ Len(enc.compact_header) > 0
    /\ dec.text = enc.text
    /\ StartsWith(dec.text, "V:")
    /\ StartsWith(restore_text_simple(enc.text).text, "%%score")

====
